---- MODULE Spec2Model ----
(***************************************************************************)
(* A model of the expression kernel of `erroneous` (src/src/expression.py) *)
(* and of its byte codecs (src/src/data_type_encoding.py).  The kernel is  *)
(* a library of synchronous operations on immutable trees: a behaviour is  *)
(* one caller choosing the arguments of a call (Init), the call running    *)
(* (one action per operation) and its return value being appended to ret.  *)
(***************************************************************************)
EXTENDS Integers, Sequences, FiniteSets, TLC

VARIABLES
    pc,     \* position of the caller: "call" before the operation, then the step reached
    call,   \* the arguments of the call in progress (a record, op names the operation)
    wire,   \* the bytes in flight between an encoder and a decoder
    ret     \* the values returned (or exceptions raised) so far, in order

vars == <<pc, call, wire, ret>>

(***************************************************************************)
(* Outcomes of a Python call: a returned value or a raised exception.      *)
(***************************************************************************)
Return(v) == [exc |-> "none", val |-> v]
Raise(kind) == [exc |-> kind]
Raised(r) == r.exc # "none"

\* The statement after a call: the exception of a call that raised goes on to
\* the caller, the value of a call that returned is what K goes on with.
Then(r, K(_)) == IF Raised(r) THEN r ELSE K(r.val)

\* Raising EncodingError, DecodingError, NoNumberEncoding, NoEncodingEntry or
\* NonDifferentiableExpressionError: each __init__ calls super.__init__(msg)
\* on the type super itself, which is a TypeError, so that is what is raised.
RaiseBrokenInit == Raise("TypeError")

Min(a, b) == IF a < b THEN a ELSE b
Max(a, b) == IF a < b THEN b ELSE a
AbsInt(a) == IF a < 0 THEN -a ELSE a

(***************************************************************************)
(* Numbers held by Constant.value.  A Python int is k = "int" with d = 1;  *)
(* a Python float is the rational n/d in lowest terms (k = "float"); the   *)
(* function objects that Sin.expr_apply and Cos.expr_apply return are      *)
(* k = "fn", told apart by the object identity n.  np marks a numpy scalar.*)
(***************************************************************************)
RECURSIVE Gcd(_, _)
Gcd(a, b) == IF b = 0 THEN AbsInt(a) ELSE Gcd(b, a % AbsInt(b))

IntV(i) == [k |-> "int", n |-> i, d |-> 1, np |-> FALSE]

FloatV(n, d) ==
    LET g == Gcd(n, d)
        s == IF d < 0 THEN -1 ELSE 1
    IN [k |-> "float", n |-> s * (n \div g), d |-> s * (d \div g), np |-> FALSE]

FnV(obj) == [k |-> "fn", n |-> obj, d |-> 0, np |-> FALSE]

\* The same number as a numpy scalar (what np.exp, np.log, np.sin, np.cos and
\* np.sign return).
NumpyV(v) == [v EXCEPT !.np = TRUE]

IsNumber(v) == v.k \in {"int", "float"}

\* Python's == on two values: numbers compare by numeric value whatever their
\* kind (1 == 1.0), a function object is equal only to itself.
ValueEq(v, w) ==
    IF v.k = "fn" \/ w.k = "fn"
    THEN v.k = w.k /\ v.n = w.n
    ELSE v.n = w.n /\ v.d = w.d

(***************************************************************************)
(* The tree.  head is the class name; Unary nodes hold a, Binary nodes a   *)
(* and b.                                                                  *)
(***************************************************************************)
UnaryHeads == {"Neg", "Exp", "Log", "Cos", "Sin", "Abs", "Sign"}
NonDunderUnaryHeads == {"Exp", "Log", "Cos", "Sin", "Sign"}
BinaryHeads == {"Plus", "Minus", "Times", "Divide", "Modulo", "Power"}

NoAlias == [some |-> FALSE, text |-> <<>>]
Alias(s) == [some |-> TRUE, text |-> s]

Constant(value) == [head |-> "Constant", value |-> value]

\* Variable.__init__: a print_alias of None and of "" are the same, None.
Variable(identity, print_alias) ==
    [head |-> "Variable", identity |-> identity,
     print_alias |-> IF print_alias.some /\ print_alias.text # <<>>
                     THEN print_alias ELSE NoAlias]

Wildcard(number) == [head |-> "Wildcard", number |-> number]
Unary(cls, a) == [head |-> cls, a |-> a]
Binary(cls, a, b) == [head |-> cls, a |-> a, b |-> b]

head(e) == e.head

terms(e) ==
    IF e.head \in BinaryHeads THEN <<e.a, e.b>>
    ELSE IF e.head \in UnaryHeads THEN <<e.a>>
    ELSE <<>>

RECURSIVE wildcard_numbers(_)
wildcard_numbers(e) ==
    IF e.head = "Wildcard" THEN {e.number}
    ELSE UNION {wildcard_numbers(terms(e)[i]) : i \in DOMAIN terms(e)}

RECURSIVE wildcard_substitute(_, _, _)
wildcard_substitute(e, wildcard_id, expression) ==
    IF e.head = "Wildcard"
    THEN IF e.number = wildcard_id THEN expression ELSE e
    ELSE IF e.head \in UnaryHeads
    THEN Unary(e.head, wildcard_substitute(e.a, wildcard_id, expression))
    ELSE IF e.head \in BinaryHeads
    THEN Binary(e.head, wildcard_substitute(e.a, wildcard_id, expression),
                        wildcard_substitute(e.b, wildcard_id, expression))
    ELSE e

RECURSIVE full_identity(_, _)
full_identity(e, other) ==
    /\ e.head = other.head
    /\ CASE e.head = "Constant" -> ValueEq(e.value, other.value)
         [] e.head = "Variable" -> e.identity = other.identity
         [] e.head = "Wildcard" -> e.number = other.number
         [] e.head \in UnaryHeads -> full_identity(e.a, other.a)
         [] OTHER -> full_identity(e.a, other.a) /\ full_identity(e.b, other.b)

(***************************************************************************)
(* Matching.  _match returns a dict from wildcard number to the list of    *)
(* subtrees captured under it, or raises MatchFailure.                     *)
(***************************************************************************)
EmptyDict == [key \in {} |-> <<>>]

\* for key in match_data: output_dict[key] += match_data[key]
MergeCaptures(output_dict, match_data) ==
    [key \in DOMAIN output_dict \cup DOMAIN match_data |->
        (IF key \in DOMAIN output_dict THEN output_dict[key] ELSE <<>>)
        \o (IF key \in DOMAIN match_data THEN match_data[key] ELSE <<>>)]

RECURSIVE _match(_, _)
RECURSIVE _match_terms(_, _, _, _)

\* The loop of Expression._match over zip(self.terms, expression.terms),
\* from pair i on, with the captures gathered so far.
_match_terms(ps, es, i, output_dict) ==
    IF i > Min(Len(ps), Len(es)) THEN Return(output_dict)
    ELSE Then(_match(ps[i], es[i]),
              LAMBDA match_data :
                 _match_terms(ps, es, i + 1, MergeCaptures(output_dict, match_data)))

_match(self, expression) ==
    CASE self.head = "Wildcard" ->
            Return([key \in {self.number} |-> <<expression>>])
      [] self.head = "Constant" ->
            IF expression.head # "Constant" THEN Raise("MatchFailure")
            ELSE IF ~ValueEq(self.value, expression.value) THEN Raise("MatchFailure")
            ELSE Return(EmptyDict)
      [] self.head = "Variable" ->
            IF expression.head # "Variable" THEN Raise("MatchFailure")
            ELSE IF self.identity # expression.identity THEN Raise("MatchFailure")
            ELSE Return(EmptyDict)
      [] OTHER ->
            IF self.head # expression.head THEN Raise("MatchFailure")
            ELSE _match_terms(terms(self), terms(expression), 1, EmptyDict)

\* What match returns: a binding (a dict from wildcard number to one subtree)
\* or None.
Binding(dict) == [bound |-> TRUE, dict |-> dict]
None == [bound |-> FALSE]

RECURSIVE match(_, _)
RECURSIVE _check_repeats(_, _)

\* for other in match_data[key][1:]: ref.match(other).  The value the inner
\* match returns is dropped; only an exception it lets through is seen here.
_check_repeats(captured, i) ==
    IF i > Len(captured) THEN Return(TRUE)
    ELSE Then(match(captured[1], captured[i]),
              LAMBDA inner : _check_repeats(captured, i + 1))

\* The loop of match over the keys of match_data: a MatchFailure from it is
\* caught (return None), another exception goes on to the caller.
match_output(md) ==
    LET raised == {r \in {_check_repeats(md[key], 2) : key \in DOMAIN md} : Raised(r)}
    IN IF Raise("MatchFailure") \in raised THEN Return(None)
       ELSE IF raised # {} THEN Raise("MatchError")
       ELSE Return(Binding([key \in DOMAIN md |-> md[key][1]]))

match(self, expression) ==
    IF wildcard_numbers(expression) # {} THEN Raise("MatchError")
    ELSE LET match_data == _match(self, expression)
         IN IF Raised(match_data)
            THEN Return(None)            \* except MatchFailure: return None
            ELSE match_output(match_data.val)

(***************************************************************************)
(* The callers' arguments: small trees over two variables and 0, 1, 2.     *)
(***************************************************************************)
IdX == <<120>>    \* b"x"
IdY == <<121>>    \* b"y"
x == Variable(IdX, NoAlias)
y == Variable(IdY, NoAlias)
w1 == Wildcard(0)
w2 == Wildcard(1)
w3 == Wildcard(2)
Num(i) == Constant(IntV(i))

Plus(a, b) == Binary("Plus", a, b)
Minus(a, b) == Binary("Minus", a, b)
Times(a, b) == Binary("Times", a, b)
Divide(a, b) == Binary("Divide", a, b)
Modulo(a, b) == Binary("Modulo", a, b)
Power(a, b) == Binary("Power", a, b)
Neg(a) == Unary("Neg", a)
Exp(a) == Unary("Exp", a)
Log(a) == Unary("Log", a)
Cos(a) == Unary("Cos", a)
Sin(a) == Unary("Sin", a)
Abs(a) == Unary("Abs", a)
Sign(a) == Unary("Sign", a)

\* The rule table, in the order of the source.
\* The table with a rule that undoes "w1 + (-w2) -> w1 - w2" in the place of
\* "w1 - (-w2) -> w1 + w2".
simplification_substitutions_growing == <<
    <<Plus(w1, Num(0)),   w1>>,
    <<Plus(Num(0), w1),   w1>>,
    <<Times(Num(1), w1),  w1>>,
    <<Times(w1, Num(1)),  w1>>,
    <<Minus(w1, Num(0)),  w1>>,
    <<Divide(w1, Num(1)), w1>>,
    <<Power(w1, Num(1)),  w1>>,
    <<Times(Num(0), w1),  Num(0)>>,
    <<Times(w1, Num(0)),  Num(0)>>,
    <<Power(Num(1), w1),  Num(1)>>,
    <<Power(w1, Num(0)),  Num(1)>>,
    <<Minus(w1, w2),      Plus(w1, Neg(w2))>>,
    <<Neg(Neg(w1)),       w1>>,
    <<Plus(w1, Neg(w2)),  Minus(w1, w2)>>,
    <<Plus(Neg(w1), w2),  Minus(w2, w1)>>,
    <<Log(Num(1)),        Num(0)>>,
    <<Exp(Num(0)),        Num(1)>>,
    <<Times(Power(w1, w2), Power(w1, w3)), Power(w1, Plus(w2, w3))>>,
    <<Times(Exp(w1), Exp(w2)),             Exp(Plus(w1, w2))>>,
    <<Plus(Log(w1), Log(w2)),              Log(Times(w1, w2))>> >>

simplification_substitutions == <<
    <<Plus(w1, Num(0)),   w1>>,
    <<Plus(Num(0), w1),   w1>>,
    <<Times(Num(1), w1),  w1>>,
    <<Times(w1, Num(1)),  w1>>,
    <<Minus(w1, Num(0)),  w1>>,
    <<Divide(w1, Num(1)), w1>>,
    <<Power(w1, Num(1)),  w1>>,
    <<Times(Num(0), w1),  Num(0)>>,
    <<Times(w1, Num(0)),  Num(0)>>,
    <<Power(Num(1), w1),  Num(1)>>,
    <<Power(w1, Num(0)),  Num(1)>>,
    <<Minus(w1, Neg(w2)), Plus(w1, w2)>>,
    <<Neg(Neg(w1)),       w1>>,
    <<Plus(w1, Neg(w2)),  Minus(w1, w2)>>,
    <<Plus(Neg(w1), w2),  Minus(w2, w1)>>,
    <<Log(Num(1)),        Num(0)>>,
    <<Exp(Num(0)),        Num(1)>>,
    <<Times(Power(w1, w2), Power(w1, w3)), Power(w1, Plus(w2, w3))>>,
    <<Times(Exp(w1), Exp(w2)),             Exp(Plus(w1, w2))>>,
    <<Plus(Log(w1), Log(w2)),              Log(Times(w1, w2))>> >>

\* replacement = target_pattern; for key in match_data:
\*     replacement = replacement.wildcard_substitute(key, match_data[key])
\* The captured subtrees hold no wildcard, so the order of the keys does not
\* change the result; the keys are taken in ascending order.
RECURSIVE instantiate(_, _)
instantiate(target_pattern, match_data) ==
    IF DOMAIN match_data = {} THEN target_pattern
    ELSE LET key == CHOOSE k \in DOMAIN match_data : \A j \in DOMAIN match_data : k <= j
             rest == [j \in DOMAIN match_data \ {key} |-> match_data[j]]
         IN instantiate(wildcard_substitute(target_pattern, key, match_data[key]), rest)

(***************************************************************************)
(* The numeric operations behind apply.  A Python object handed around by  *)
(* _reduce_constants and __call__ is a number or function object (PyNum)   *)
(* or an Expression (PyExpr).  "OutOfModel" stands for a result the model  *)
(* does not compute: an irrational value, inf or nan, a number beyond      *)
(* MaxMagnitude, or a numpy scalar meeting an Expression.                  *)
(***************************************************************************)
MaxMagnitude == 10000
MaxPowBase == 12
MaxPowExponent == 6

PyNum(v) == [t |-> "num", v |-> v]
PyExpr(e) == [t |-> "expr", e |-> e]
IsExpression(o) == o.t = "expr"

InRange(v) == AbsInt(v.n) <= MaxMagnitude /\ v.d <= MaxMagnitude

\* The number n/d with the kind Python gives the result of an operation on
\* a and b: an int when both are ints (and keep_int), a float otherwise.
NumResult(a, b, keep_int, n, d) ==
    LET v == IF a.k = "int" /\ b.k = "int" /\ keep_int THEN IntV(n) ELSE FloatV(n, d)
    IN Return(PyNum(IF a.np \/ b.np THEN NumpyV(v) ELSE v))

RECURSIVE IntPow(_, _)
IntPow(b, e) == IF e = 0 THEN 1 ELSE b * IntPow(b, e - 1)

\* a ** b
NumPower(a, b) ==
    IF b.d # 1 THEN Raise("OutOfModel")
    ELSE IF b.n >= 0
    THEN IF (AbsInt(a.n) > 1 \/ a.d > 1)
            /\ (AbsInt(a.n) > MaxPowBase \/ a.d > MaxPowBase \/ b.n > MaxPowExponent)
         THEN Raise("OutOfModel")
         ELSE NumResult(a, b, TRUE, IntPow(a.n, b.n), IntPow(a.d, b.n))
    ELSE IF a.n = 0
    THEN IF a.np \/ b.np THEN Raise("OutOfModel") ELSE Raise("ZeroDivisionError")
    ELSE IF (AbsInt(a.n) > 1 \/ a.d > 1)
            /\ (AbsInt(a.n) > MaxPowBase \/ a.d > MaxPowBase \/ -b.n > MaxPowExponent)
    THEN Raise("OutOfModel")
    ELSE NumResult(a, b, FALSE, IntPow(a.d, -b.n), IntPow(a.n, -b.n))

\* a % b == a - b * floor(a / b)
NumModulo(a, b) ==
    IF b.n = 0
    THEN IF a.np \/ b.np THEN Raise("OutOfModel") ELSE Raise("ZeroDivisionError")
    ELSE LET qn == a.n * b.d * (IF b.n < 0 THEN -1 ELSE 1)
             qd == a.d * AbsInt(b.n)
             fl == qn \div qd
         IN NumResult(a, b, TRUE, a.n * b.d - fl * b.n * a.d, a.d * b.d)

\* a / b
NumDivide(a, b) ==
    IF b.n = 0
    THEN IF a.np \/ b.np THEN Raise("OutOfModel") ELSE Raise("ZeroDivisionError")
    ELSE NumResult(a, b, FALSE, a.n * b.d, a.d * b.n)

\* The apply of a Binary class on two numbers.
NumBinary(cls, a, b) ==
    IF ~InRange(a) \/ ~InRange(b) THEN Raise("OutOfModel")
    ELSE CASE cls = "Plus"   -> NumResult(a, b, TRUE, a.n * b.d + b.n * a.d, a.d * b.d)
           [] cls = "Minus"  -> NumResult(a, b, TRUE, a.n * b.d - b.n * a.d, a.d * b.d)
           [] cls = "Times"  -> NumResult(a, b, TRUE, a.n * b.n, a.d * b.d)
           [] cls = "Divide" -> NumDivide(a, b)
           [] cls = "Modulo" -> NumModulo(a, b)
           [] cls = "Power"  -> NumPower(a, b)

SignOf(i) == IF i > 0 THEN 1 ELSE IF i < 0 THEN -1 ELSE 0

\* The apply of a Unary class on a number: -a, abs(a), and the numpy
\* functions, which return numpy scalars.  Of exp, log, sin and cos only the
\* rational values are computed.
NumUnary(cls, a) ==
    CASE cls = "Neg"  -> Return(PyNum([a EXCEPT !.n = -a.n]))
      [] cls = "Abs"  -> Return(PyNum([a EXCEPT !.n = AbsInt(a.n)]))
      [] cls = "Sign" -> Return(PyNum(NumpyV([a EXCEPT !.n = SignOf(a.n), !.d = 1])))
      [] cls = "Exp"  -> IF a.n = 0 THEN Return(PyNum(NumpyV(FloatV(1, 1))))
                         ELSE Raise("OutOfModel")
      [] cls = "Log"  -> IF a.n = a.d THEN Return(PyNum(NumpyV(FloatV(0, 1))))
                         ELSE Raise("OutOfModel")
      [] cls = "Sin"  -> IF a.n = 0 THEN Return(PyNum(NumpyV(FloatV(0, 1))))
                         ELSE Raise("OutOfModel")
      [] cls = "Cos"  -> IF a.n = 0 THEN Return(PyNum(NumpyV(FloatV(1, 1))))
                         ELSE Raise("OutOfModel")

\* Expression._sanitise: a number becomes a Constant, an Expression stays,
\* anything else (a function object, a numpy integer) is a TypeError.
_sanitise(value) ==
    IF IsExpression(value) THEN Return(value.e)
    ELSE IF value.v.k = "fn" THEN Raise("TypeError")
    ELSE IF value.v.np /\ value.v.k = "int" THEN Raise("TypeError")
    ELSE Return(Constant(value.v))

\* Binary.apply of class cls, a op b, on Python objects.  With an Expression
\* on the left the dunder (__add__ ...) of Expression runs; with a number on
\* the left and an Expression on the right the reflected dunder runs, which
\* Expression defines for every operator but / (__rdiv__ is not the name
\* Python 3 looks for).
BinaryApply(cls, a, b) ==
    IF IsExpression(a)
    THEN Then(_sanitise(b), LAMBDA other : Return(PyExpr(Binary(cls, a.e, other))))
    ELSE IF IsExpression(b)
    THEN IF a.v.k = "fn" THEN Raise("TypeError")
         ELSE IF a.v.np THEN Raise("OutOfModel")
         ELSE IF cls = "Divide" THEN Raise("TypeError")
         ELSE Return(PyExpr(Binary(cls, Constant(a.v), b.e)))
    ELSE IF a.v.k = "fn" \/ b.v.k = "fn" THEN Raise("TypeError")
    ELSE NumBinary(cls, a.v, b.v)

\* Unary.apply of class cls on a Python object (Neg: -a, Abs: abs(a), the
\* others the numpy function).
UnaryApply(cls, a) ==
    IF IsExpression(a)
    THEN IF cls \in {"Neg", "Abs"} THEN Return(PyExpr(Unary(cls, a.e)))
         ELSE Raise("OutOfModel")
    ELSE IF a.v.k = "fn" THEN Raise("TypeError")
    ELSE IF ~InRange(a.v) THEN Raise("OutOfModel")
    ELSE NumUnary(cls, a.v)

\* expr_apply of a NonDunderUnary class on an Expression: Exp, Log and Sign
\* build the node; Cos and Sin return a function (lambda x: Cos(x)), the
\* object obj.
expr_apply(cls, a, obj) ==
    IF cls \in {"Cos", "Sin"} THEN PyNum(FnV(obj)) ELSE PyExpr(Unary(cls, a))

\* The fold of a Unary node that leaves the number under a Neg as it is.
UnaryFold_unsigned(cls, child, obj) ==
    IF cls = "Neg" /\ ~IsExpression(child) THEN Return(child)
    ELSE IF cls \in NonDunderUnaryHeads /\ IsExpression(child)
    THEN Return(expr_apply(cls, child.e, obj))
    ELSE UnaryApply(cls, child)

\* What a Unary node makes of its folded child: NonDunderUnary takes
\* expr_apply for an Expression, every other case is apply.
UnaryFold(cls, child, obj) ==
    IF cls \in NonDunderUnaryHeads /\ IsExpression(child)
    THEN Return(expr_apply(cls, child.e, obj))
    ELSE UnaryApply(cls, child)

\* _reduce_constants of every class; obj is the identity of the function
\* object this pass allocates, should it allocate one.
RECURSIVE _reduce_constants(_, _)
_reduce_constants(self, obj) ==
    CASE self.head = "Constant" -> Return(PyNum(self.value))
      [] self.head \in {"Variable", "Wildcard"} -> Return(PyExpr(self))
      [] self.head \in UnaryHeads ->
            Then(_reduce_constants(self.a, obj),
                 LAMBDA child : UnaryFold(self.head, child, obj))
      [] OTHER ->
            Then(_reduce_constants(self.a, obj), LAMBDA a :
            Then(_reduce_constants(self.b, obj), LAMBDA b :
                 BinaryApply(self.head, a, b)))

reduce_constants(self, obj) ==
    Then(_reduce_constants(self, obj),
         LAMBDA reduced : IF IsExpression(reduced) THEN Return(reduced.e)
                          ELSE Return(Constant(reduced.v)))

(***************************************************************************)
(* Substitution and the simplifier.                                        *)
(***************************************************************************)
\* The tail shared by every _substitute: match the source against the node
\* and, on a match, return the instantiated target.
\* The replacement matched against the source once more before it is returned.
_substitute_here_repeated(new_self, source_pattern, target_pattern) ==
    Then(match(source_pattern, new_self),
         LAMBDA match_data :
            IF ~match_data.bound THEN Return(new_self)
            ELSE Then(match(source_pattern, instantiate(target_pattern, match_data.dict)),
                      LAMBDA again :
                         IF again.bound
                         THEN Return(instantiate(target_pattern, again.dict))
                         ELSE Return(instantiate(target_pattern, match_data.dict))))

\* The target returned as it stands, its wildcards not replaced.
_substitute_here_uninstantiated(new_self, source_pattern, target_pattern) ==
    Then(match(source_pattern, new_self),
         LAMBDA match_data :
            IF match_data.bound THEN Return(target_pattern) ELSE Return(new_self))

_substitute_here(new_self, source_pattern, target_pattern) ==
    Then(match(source_pattern, new_self),
         LAMBDA match_data :
            IF match_data.bound
            THEN Return(instantiate(target_pattern, match_data.dict))
            ELSE Return(new_self))

\* _substitute of every class: the children first, a before b, then the
\* node built from the substituted children.
RECURSIVE _substitute(_, _, _)
_substitute(self, source_pattern, target_pattern) ==
    LET new_a == IF self.head \in UnaryHeads \cup BinaryHeads
                 THEN _substitute(self.a, source_pattern, target_pattern)
                 ELSE Return(self)
        new_b == IF self.head \in BinaryHeads
                 THEN _substitute(self.b, source_pattern, target_pattern)
                 ELSE Return(self)
    IN IF self.head = "Wildcard" THEN Raise("SubstitutionError")
       ELSE Then(new_a, LAMBDA a :
            Then(new_b, LAMBDA b :
                 _substitute_here(IF self.head \in BinaryHeads THEN Binary(self.head, a, b)
                                  ELSE IF self.head \in UnaryHeads THEN Unary(self.head, a)
                                  ELSE self,
                                  source_pattern, target_pattern)))

\* substitute without the check of the target's wildcards.
substitute_unchecked(self, source_pattern, target_pattern) ==
    _substitute(self, source_pattern, target_pattern)

substitute(self, source_pattern, target_pattern) ==
    IF wildcard_numbers(target_pattern) \ wildcard_numbers(source_pattern) # {}
    THEN Raise("SubstitutionError")
    ELSE _substitute(self, source_pattern, target_pattern)

\* for source, target in simplification_substitutions:
\*     new_expression = new_expression.substitute(source, target)
RECURSIVE rule_sweep(_, _)
rule_sweep(new_expression, i) ==
    IF i > Len(simplification_substitutions) THEN Return(new_expression)
    ELSE Then(substitute(new_expression,
                         simplification_substitutions[i][1],
                         simplification_substitutions[i][2]),
              LAMBDA newer : rule_sweep(newer, i + 1))

\* One pass of the loop body of simplify up to the comparison.
simplify_pass(new_expression, obj) ==
    Then(reduce_constants(new_expression, obj), LAMBDA reduced : rule_sweep(reduced, 1))

\* simplify with an `if` where the `for` loop stands: one pass, no fixed point.
simplify_single_pass(last_expression, new_expression, i, max_iters, obj) ==
    simplify_pass(new_expression, obj)

\* The loop of simplify with range(max_iters + 1) where range(max_iters) stands.
RECURSIVE simplify_loop_one_more(_, _, _, _, _)
simplify_loop_one_more(last_expression, new_expression, i, max_iters, obj) ==
    IF i > max_iters THEN Return(last_expression)
    ELSE Then(simplify_pass(new_expression, obj),
              LAMBDA swept :
                 IF full_identity(swept, last_expression) THEN Return(swept)
                 ELSE simplify_loop_one_more(swept, swept, i + 1, max_iters, obj))

\* The loop of simplify from iteration i on.
RECURSIVE simplify_loop(_, _, _, _, _)
simplify_loop(last_expression, new_expression, i, max_iters, obj) ==
    IF i >= max_iters THEN Return(last_expression)
    ELSE Then(simplify_pass(new_expression, obj),
              LAMBDA swept :
                 IF full_identity(swept, last_expression) THEN Return(swept)
                 ELSE simplify_loop(swept, swept, i + 1, max_iters, obj))

DefaultMaxIters == 100

simplify(self, obj) == simplify_loop(self, self, 0, DefaultMaxIters, obj)

(***************************************************************************)
(* Evaluation: __call__ with a map from variable identity to a number.     *)
(***************************************************************************)
RECURSIVE evaluate(_, _)
evaluate(self, variable_map) ==
    CASE self.head = "Constant" -> Return(PyNum(self.value))
      [] self.head = "Variable" ->
            IF self.identity \in DOMAIN variable_map
            THEN Return(PyNum(variable_map[self.identity]))
            ELSE Raise("KeyError")
      [] self.head = "Wildcard" -> Raise("EvaluationError")
      [] self.head \in UnaryHeads ->
            Then(evaluate(self.a, variable_map), LAMBDA a : UnaryApply(self.head, a))
      [] OTHER ->
            Then(evaluate(self.a, variable_map), LAMBDA a :
            Then(evaluate(self.b, variable_map), LAMBDA b :
                 BinaryApply(self.head, a, b)))

(***************************************************************************)
(* Differentiation.  obj names the call, for the functions that folding    *)
(* a Cos or Sin creates; a nested call gets a name of its own.             *)
(***************************************************************************)
differentiable(self) == self.head \notin {"Wildcard", "Sign"}

\* Variable._diff with the print alias taken into the comparison.
Variable_diff_by_alias(self, term) ==
    IF term.identity = self.identity /\ term.print_alias = self.print_alias
    THEN Return(Constant(IntV(1)))
    ELSE Return(Constant(IntV(0)))

\* Variable._diff
Variable_diff(self, term) ==
    IF term.identity = self.identity THEN Return(Constant(IntV(1)))
    ELSE Return(Constant(IntV(0)))

RECURSIVE _diff(_, _, _)
RECURSIVE diff(_, _, _)

\* What _diff of a Binary node builds from self.a._diff(term) and
\* self.b._diff(term).
\* The Binary rules with the two terms of the product rule exchanged.
BinaryDerivative_commuted(self, da, db) ==
    CASE self.head = "Plus" -> Plus(da, db)
      [] self.head = "Minus" -> Minus(da, db)
      [] self.head = "Times" -> Plus(Times(da, self.b), Times(self.a, db))
      [] self.head = "Divide" ->
            Divide(Minus(Times(da, self.b), Times(self.a, db)),
                   Power(self.b, Constant(IntV(2))))
      [] self.head = "Power" ->
            Times(Plus(Times(Times(self.a, db), Log(self.a)), Times(self.b, da)),
                  Power(self.a, Minus(self.b, Constant(IntV(1)))))

BinaryDerivative(self, da, db) ==
    CASE self.head = "Plus" -> Plus(da, db)
      [] self.head = "Minus" -> Minus(da, db)
      [] self.head = "Times" -> Plus(Times(self.a, db), Times(da, self.b))
      [] self.head = "Divide" ->
            Divide(Minus(Times(da, self.b), Times(self.a, db)),
                   Power(self.b, Constant(IntV(2))))
      [] self.head = "Power" ->
            Times(Plus(Times(Times(self.a, db), Log(self.a)), Times(self.b, da)),
                  Power(self.a, Minus(self.b, Constant(IntV(1)))))

\* What _diff of a Unary node builds from the derivative of self.a.
UnaryDerivative(self, da) ==
    CASE self.head = "Neg" -> Neg(da)
      [] self.head = "Exp" -> Times(Exp(self.a), da)
      [] self.head = "Log" -> Divide(da, self.a)
      [] self.head = "Abs" -> Times(Sign(self.a), da)
      [] self.head = "Cos" -> Times(Neg(da), Sin(self.a))
      [] self.head = "Sin" -> Times(da, Cos(self.a))

\* _diff of each class.  Times asks for self.b._diff first, the other Binary
\* classes for self.a._diff; Modulo asks for self.a._diff alone; Cos and Sin
\* call self.a.diff, the others self.a._diff.
_diff(self, term, obj) ==
    CASE self.head = "Constant" -> Return(Constant(IntV(0)))
      [] self.head = "Variable" -> Variable_diff(self, term)
      [] self.head \in {"Wildcard", "Sign"} -> Raise("NotImplementedError")
      [] self.head = "Modulo" -> _diff(self.a, term, 10 * obj + 1)
      [] self.head = "Times" ->
            Then(_diff(self.b, term, 10 * obj + 2), LAMBDA db :
            Then(_diff(self.a, term, 10 * obj + 1), LAMBDA da :
                 Return(BinaryDerivative(self, da, db))))
      [] self.head \in BinaryHeads \ {"Modulo", "Times"} ->
            Then(_diff(self.a, term, 10 * obj + 1), LAMBDA da :
            Then(_diff(self.b, term, 10 * obj + 2), LAMBDA db :
                 Return(BinaryDerivative(self, da, db))))
      [] self.head \in {"Cos", "Sin"} ->
            Then(diff(self.a, term, 10 * obj + 1),
                 LAMBDA da : Return(UnaryDerivative(self, da)))
      [] OTHER ->
            Then(_diff(self.a, term, 10 * obj + 1),
                 LAMBDA da : Return(UnaryDerivative(self, da)))

fast_diff(self, term, obj) ==
    IF differentiable(self) THEN _diff(self, term, obj) ELSE RaiseBrokenInit

diff(self, term, obj) ==
    Then(fast_diff(self, term, obj), LAMBDA raw : simplify(raw, obj))

(***************************************************************************)
(* Bytes.  A byte string is a sequence of numbers 0..255.                  *)
(***************************************************************************)
\* data[a:b] of Python, a and b counted from 0 and cut to the length.
Slice(data, a, b) == SubSeq(data, a + 1, Min(b, Len(data)))
SliceFrom(data, a) == SubSeq(data, a + 1, Len(data))

\* n // 256**k
RECURSIVE DivPow256(_, _)
DivPow256(n, k) == IF k = 0 THEN n ELSE DivPow256(n \div 256, k - 1)

\* n == 256**k and n > 256**k, without computing 256**k
RECURSIVE EqPow256(_, _)
EqPow256(n, k) == IF k = 0 THEN n = 1 ELSE n % 256 = 0 /\ EqPow256(n \div 256, k - 1)

RECURSIVE GtPow256(_, _)
GtPow256(n, k) ==
    IF k = 0 THEN n > 1
    ELSE GtPow256(n \div 256, k - 1) \/ (EqPow256(n \div 256, k - 1) /\ n % 256 > 0)

\* The big-endian digits of n.to_bytes(length, 'big', signed=False)
RECURSIVE BigEndian(_, _)
BigEndian(n, length) ==
    IF length = 0 THEN <<>> ELSE Append(BigEndian(n \div 256, length - 1), n % 256)

to_bytes(n, length) ==
    IF n < 0 \/ DivPow256(n, length) # 0 THEN Raise("OverflowError")
    ELSE Return(BigEndian(n, length))

\* int.from_bytes(data, 'big', signed=False)
RECURSIVE from_bytes(_)
from_bytes(data) ==
    IF data = <<>> THEN 0
    ELSE 256 * from_bytes(SubSeq(data, 1, Len(data) - 1)) + data[Len(data)]

Reverse(data) == [i \in 1..Len(data) |-> data[Len(data) + 1 - i]]

\* EncodingSettings
variable_index_bytes == 2
expression_bytes == 1
dimension_encoding_depth == 4
int_bytes == 4
float_bytes == 8
bytestring_length_bytes == 4

(***************************************************************************)
(* The bytestring codec.                                                   *)
(***************************************************************************)
encode_bytestring(data) ==
    IF GtPow256(Len(data), bytestring_length_bytes) THEN RaiseBrokenInit
    ELSE Then(to_bytes(Len(data), bytestring_length_bytes),
              LAMBDA prefix : Return(prefix \o data))

\* A decoder that takes the rest of the input for the payload.
decode_bytestring_to_end(data) ==
    IF Len(data) < bytestring_length_bytes THEN RaiseBrokenInit
    ELSE Return(<<SliceFrom(data, bytestring_length_bytes), Len(data)>>)

\* Returns <<payload, consumed size>>.
decode_bytestring_with_size(data) ==
    IF Len(data) < bytestring_length_bytes THEN RaiseBrokenInit
    ELSE LET data_length == from_bytes(Slice(data, 0, bytestring_length_bytes))
             length == data_length + bytestring_length_bytes
         IN Return(<<Slice(data, bytestring_length_bytes, length), length>>)

(***************************************************************************)
(* The numeric codec.  An encodable number is an int or a float (IntV,     *)
(* FloatV) or an array [k |-> "array", kind, shape, data] whose data are   *)
(* the elements in C order.  tobytes and frombuffer use the byte order of  *)
(* the machine, byteorder.                                                 *)
(***************************************************************************)
ArrayV(kind, shape, data) == [k |-> "array", kind |-> kind, shape |-> shape, data |-> data]

RECURSIVE Product(_)
Product(shape) == IF shape = <<>> THEN 1 ELSE Head(shape) * Product(Tail(shape))

RECURSIVE Pow2(_)
Pow2(e) == IF e = 0 THEN 1 ELSE 2 * Pow2(e - 1)

\* The 4 bytes of a 32-bit two's complement integer, most significant first.
Int32Bytes(i) == <<(i \div 16777216) % 256, (i \div 65536) % 256, (i \div 256) % 256, i % 256>>

Int32FromBytes(b) ==
    (IF b[1] >= 128 THEN b[1] - 256 ELSE b[1]) * 16777216 + b[2] * 65536 + b[3] * 256 + b[4]

\* The exponent E with 2**E <= n/d < 2**(E+1), for n/d > 0.
RECURSIVE BinaryExponent(_, _, _)
BinaryExponent(n, d, e) ==
    IF n < d THEN BinaryExponent(2 * n, d, e - 1)
    ELSE IF n >= 2 * d THEN BinaryExponent(n, 2 * d, e + 1)
    ELSE e

\* The leading bits of the 52-bit fraction that are computed: the 4 of the
\* second byte and the 16 of the third and fourth.
MantissaBits == 4 + 16
ExponentBias == Pow2(10) - 1
MaxBinaryExponent == 10

\* The 8 bytes of an IEEE-754 double, most significant first, of the float
\* n/d.  Floats that need more than MantissaBits fraction bits or an exponent
\* beyond MaxBinaryExponent are out of the model.
Float64Bytes(v) ==
    IF v.n = 0 THEN Return(<<0, 0, 0, 0, 0, 0, 0, 0>>)
    ELSE LET sign == IF v.n < 0 THEN 1 ELSE 0
             n == AbsInt(v.n)
             E == BinaryExponent(n, v.d, 0)
             num == IF E >= 0 THEN n - v.d * Pow2(E) ELSE n * Pow2(-E) - v.d
             den == IF E >= 0 THEN v.d * Pow2(E) ELSE v.d
             m == (num * Pow2(MantissaBits)) \div den
             e == E + ExponentBias
         IN IF AbsInt(E) > MaxBinaryExponent \/ (num * Pow2(MantissaBits)) % den # 0
            THEN Raise("OutOfModel")
            ELSE Return(<<sign * 128 + e \div 16, (e % 16) * 16 + m \div 65536,
                          (m \div 256) % 256, m % 256, 0, 0, 0, 0>>)

Float64FromBytes(b) ==
    LET sign == b[1] \div 128
        e == (b[1] % 128) * 16 + b[2] \div 16
        m == (b[2] % 16) * 65536 + b[3] * 256 + b[4]
        E == e - ExponentBias
        s == IF sign = 1 THEN -1 ELSE 1
    IN IF e = 0 /\ m = 0 /\ SubSeq(b, 5, 8) = <<0, 0, 0, 0>> THEN Return(FloatV(0, 1))
       ELSE IF SubSeq(b, 5, 8) # <<0, 0, 0, 0>> \/ e = 0 \/ AbsInt(E) > MaxBinaryExponent
       THEN Raise("OutOfModel")
       ELSE IF E >= 0
       THEN Return(FloatV(s * (Pow2(MantissaBits) + m) * Pow2(E), Pow2(MantissaBits)))
       ELSE Return(FloatV(s * (Pow2(MantissaBits) + m), Pow2(MantissaBits - E)))

\* One element as tobytes writes it.
ElementBytes(v, kind, byteorder) ==
    Then(IF kind = "int" THEN Return(Int32Bytes(v.n)) ELSE Float64Bytes(v),
         LAMBDA big : Return(IF byteorder = "big" THEN big ELSE Reverse(big)))

\* What a loop over calls leaves: the first exception, or the values.
Collect(results) ==
    IF \E i \in DOMAIN results : Raised(results[i])
    THEN results[CHOOSE i \in DOMAIN results :
                    Raised(results[i]) /\ \A j \in 1..(i - 1) : ~Raised(results[j])]
    ELSE Return([i \in DOMAIN results |-> results[i].val])

\* b''.join(parts)
RECURSIVE Concat(_)
Concat(parts) == IF Len(parts) = 0 THEN <<>> ELSE Head(parts) \o Concat(Tail(parts))

\* arr.tobytes(): the elements in C order, each in the order of the machine.
tobytes(data, kind, byteorder) ==
    Then(Collect([i \in 1..Len(data) |-> ElementBytes(data[i], kind, byteorder)]),
         LAMBDA parts : Return(Concat(parts)))

\* One element of frombuffer, from the bytes in the order of the machine.
ElementFromBytes(raw, kind, byteorder) ==
    IF kind = "int"
    THEN Return(IntV(Int32FromBytes(IF byteorder = "big" THEN raw ELSE Reverse(raw))))
    ELSE Float64FromBytes(IF byteorder = "big" THEN raw ELSE Reverse(raw))

\* np.frombuffer(data_bytes, dtype): the elements, or ValueError when the
\* buffer is no whole number of elements.
frombuffer(data_bytes, kind, byteorder) ==
    LET dsize == IF kind = "int" THEN int_bytes ELSE float_bytes
    IN IF Len(data_bytes) % dsize # 0 THEN Raise("ValueError")
       ELSE Collect([i \in 1..(Len(data_bytes) \div dsize) |->
                        ElementFromBytes(SubSeq(data_bytes, (i - 1) * dsize + 1, i * dsize),
                                         kind, byteorder)])

\* x.to_bytes(dimension_encoding_depth, ...) for x in arr.shape
RECURSIVE shape_bytes(_)
shape_bytes(shape) ==
    IF shape = <<>> THEN Return(<<>>)
    ELSE Then(to_bytes(Head(shape), dimension_encoding_depth), LAMBDA first :
         Then(shape_bytes(Tail(shape)), LAMBDA rest :
              Return(first \o rest)))

_encode_numpy_array(arr, byteorder) ==
    IF Len(arr.shape) > 127 THEN RaiseBrokenInit
    ELSE Then(to_bytes(2 * Len(arr.shape) + (IF arr.kind = "int" THEN 0 ELSE 1), 1),
              LAMBDA type_byte :
         Then(shape_bytes(arr.shape), LAMBDA dims :
         Then(tobytes(arr.data, arr.kind, byteorder), LAMBDA data_bytes :
              Return(type_byte \o dims \o data_bytes))))

\* encode_numeric: an int becomes a 0-d int32 array, a float a 0-d float64
\* array (a numpy float is a float; a numpy integer and a function are not
\* numbers to isinstance).
encode_numeric(number, byteorder) ==
    IF number.k = "array" THEN _encode_numpy_array(number, byteorder)
    ELSE IF number.k = "int" /\ ~number.np
    THEN _encode_numpy_array(ArrayV("int", <<>>, <<number>>), byteorder)
    ELSE IF number.k = "float"
    THEN _encode_numpy_array(ArrayV("float", <<>>, <<number>>), byteorder)
    ELSE RaiseBrokenInit

\* for i in range(shape_length): shape.append(from_bytes(data[a:b]))
RECURSIVE read_shape(_, _, _)
read_shape(data, i, shape_length) ==
    IF i >= shape_length THEN <<>>
    ELSE LET a == dimension_encoding_depth * i + 1
             b == a + dimension_encoding_depth
         IN <<from_bytes(Slice(data, a, b))>> \o read_shape(data, i + 1, shape_length)

\* The bytes from data_start to data_end, read as elements.
numeric_data(data, kind, shape, byteorder) ==
    LET dsize == IF kind = "int" THEN int_bytes ELSE float_bytes
        data_start == 1 + Len(shape) * dimension_encoding_depth
    IN frombuffer(Slice(data, data_start, data_start + dsize * Product(shape)),
                  kind, byteorder)

\* data_end, the size decode_numeric_with_size returns.
numeric_data_end(kind, shape) ==
    1 + Len(shape) * dimension_encoding_depth
      + (IF kind = "int" THEN int_bytes ELSE float_bytes) * Product(shape)

\* The end of decode_numeric_with_size: int(unshaped) or float(unshaped) for
\* no shape (only an array of one element converts), else reshape.
numeric_result(unshaped, kind, shape) ==
    IF Len(shape) = 0
    THEN IF Len(unshaped) # 1 THEN Raise("TypeError")
         ELSE Return(<<unshaped[1], numeric_data_end(kind, shape)>>)
    ELSE IF Len(unshaped) # Product(shape) THEN Raise("ValueError")
         ELSE Return(<<ArrayV(kind, shape, unshaped), numeric_data_end(kind, shape)>>)

\* decode_numeric_with_size once the shape is read.
decode_numeric_of_shape(data, kind, shape, byteorder) ==
    Then(numeric_data(data, kind, shape, byteorder),
         LAMBDA unshaped : numeric_result(unshaped, kind, shape))

\* The scalar-keeping mistake: a scalar comes back as the array frombuffer made.
decode_numeric_keeps_array(data, byteorder) ==
    IF data = <<>> THEN Raise("IndexError")
    ELSE Then(numeric_data(data, IF data[1] % 2 = 0 THEN "int" ELSE "float",
                           read_shape(data, 0, data[1] \div 2), byteorder),
              LAMBDA unshaped :
                 Return(<<ArrayV(IF data[1] % 2 = 0 THEN "int" ELSE "float",
                                 read_shape(data, 0, data[1] \div 2), unshaped),
                          numeric_data_end(IF data[1] % 2 = 0 THEN "int" ELSE "float",
                                           read_shape(data, 0, data[1] \div 2))>>))

\* Returns <<number, consumed size>>.
decode_numeric_with_size(data, byteorder) ==
    IF data = <<>> THEN Raise("IndexError")
    ELSE decode_numeric_of_shape(data,
                                 IF data[1] % 2 = 0 THEN "int" ELSE "float",
                                 read_shape(data, 0, data[1] \div 2),
                                 byteorder)

(***************************************************************************)
(* The variable table.  An alias is a string, a sequence of code points.   *)
(***************************************************************************)
\* str.encode('utf-8') of one code point
Utf8OfCodePoint(c) ==
    IF c < 128 THEN <<c>>
    ELSE IF c < 2048 THEN <<192 + c \div 64, 128 + (c % 64)>>
    ELSE IF c < 65536 THEN <<224 + c \div 4096, 128 + ((c \div 64) % 64), 128 + (c % 64)>>
    ELSE <<240 + c \div 262144, 128 + ((c \div 4096) % 64), 128 + ((c \div 64) % 64), 128 + (c % 64)>>

RECURSIVE utf8_encode(_)
utf8_encode(text) ==
    IF text = <<>> THEN <<>> ELSE Utf8OfCodePoint(Head(text)) \o utf8_encode(Tail(text))

IsContinuation(data, i) == i <= Len(data) /\ data[i] \div 64 = 2

\* bytes.decode('utf-8'): the code points, or UnicodeDecodeError
RECURSIVE utf8_decode(_)
utf8_decode(data) ==
    IF data = <<>> THEN Return(<<>>)
    ELSE LET b == data[1]
             n == IF b < 128 THEN 1
                  ELSE IF b \div 32 = 6 /\ b >= 194 THEN 2
                  ELSE IF b \div 16 = 14 THEN 3
                  ELSE IF b \div 8 = 30 /\ b <= 244 THEN 4
                  ELSE 0
         IN IF n = 0 \/ \E i \in 2..n : ~IsContinuation(data, i)
            THEN Raise("UnicodeDecodeError")
            ELSE LET c == CASE n = 1 -> b
                            [] n = 2 -> (b % 32) * 64 + (data[2] % 64)
                            [] n = 3 -> (b % 16) * 4096 + (data[2] % 64) * 64 + (data[3] % 64)
                            [] n = 4 -> (b % 8) * 262144 + (data[2] % 64) * 4096
                                        + (data[3] % 64) * 64 + (data[4] % 64)
                     rest == utf8_decode(SubSeq(data, n + 1, Len(data)))
                 IN IF (n = 3 /\ c < 2048) \/ (n = 4 /\ c < 65536)
                    THEN Raise("UnicodeDecodeError")
                    ELSE IF Raised(rest) THEN rest
                    ELSE Return(<<c>> \o rest.val)

_encode_variable_table_entry(identity, alias) ==
    Then(encode_bytestring(IF alias.some THEN utf8_encode(alias.text) ELSE <<>>),
         LAMBDA alias_bytes :
    Then(encode_bytestring(identity),
         LAMBDA identity_bytes : Return(identity_bytes \o alias_bytes)))

\* alias_bytes.decode('utf-8'), a UnicodeDecodeError raised again as a
\* DecodingError.
decode_alias(alias_bytes) ==
    LET text == utf8_decode(alias_bytes)
    IN IF Raised(text) THEN RaiseBrokenInit ELSE Return(Alias(text.val))

\* Returns <<<<identity, alias>>, consumed size>>.
_decode_variable_table_entry_with_size(data) ==
    Then(decode_bytestring_with_size(data), LAMBDA identity :
    Then(decode_bytestring_with_size(SliceFrom(data, identity[2])), LAMBDA alias_bytes :
    Then(IF alias_bytes[2] = bytestring_length_bytes THEN Return(NoAlias)
         ELSE decode_alias(alias_bytes[1]),
         LAMBDA alias : Return(<<<<identity[1], alias>>, identity[2] + alias_bytes[2]>>))))

RECURSIVE encode_entries(_)
encode_entries(variables) ==
    IF variables = <<>> THEN Return(<<>>)
    ELSE Then(_encode_variable_table_entry(Head(variables)[1], Head(variables)[2]),
              LAMBDA first :
         Then(encode_entries(Tail(variables)),
              LAMBDA rest : Return(first \o rest)))

\* A table whose entries carry the identity only.
encode_variable_table_without_alias(variables) ==
    Then(to_bytes(Len(variables), variable_index_bytes), LAMBDA count :
    Then(encode_entries([i \in 1..Len(variables) |-> <<variables[i][1], NoAlias>>]),
         LAMBDA entries : Return(count \o entries)))

encode_variable_table(variables) ==
    IF GtPow256(Len(variables), variable_index_bytes) THEN RaiseBrokenInit
    ELSE Then(to_bytes(Len(variables), variable_index_bytes), LAMBDA output_bytes :
         Then(encode_entries(variables),
              LAMBDA entries : Return(output_bytes \o entries)))

\* The loop of decode_variable_table_with_size from entry i on.
RECURSIVE decode_entries(_, _, _, _, _)
decode_entries(data, i, n_variables, table_data, start_index) ==
    IF i >= n_variables THEN Return(<<table_data, start_index>>)
    ELSE Then(_decode_variable_table_entry_with_size(SliceFrom(data, start_index)),
              LAMBDA entry :
                 decode_entries(data, i + 1, n_variables,
                                Append(table_data, entry[1]), start_index + entry[2]))

\* Returns <<list of <<identity, alias>>, consumed size>>.
decode_variable_table_with_size(data) ==
    decode_entries(data, 0, from_bytes(Slice(data, 0, variable_index_bytes)),
                   <<>>, variable_index_bytes)

(***************************************************************************)
(* The expression codec.                                                   *)
(***************************************************************************)
expression_encoding ==
    [cls \in {"Constant", "Variable"} \cup UnaryHeads \cup BinaryHeads |->
        CASE cls = "Constant" -> 1 [] cls = "Variable" -> 2 [] cls = "Plus" -> 3
          [] cls = "Minus" -> 4    [] cls = "Neg" -> 5      [] cls = "Times" -> 6
          [] cls = "Divide" -> 7   [] cls = "Modulo" -> 8   [] cls = "Power" -> 9
          [] cls = "Exp" -> 10     [] cls = "Log" -> 11     [] cls = "Cos" -> 12
          [] cls = "Sin" -> 13     [] cls = "Abs" -> 14     [] cls = "Sign" -> 15]

expression_decoding ==
    [id \in {expression_encoding[cls] : cls \in DOMAIN expression_encoding} |->
        CHOOSE cls \in DOMAIN expression_encoding : expression_encoding[cls] = id]

\* Python's order on bytes
RECURSIVE BytesLess(_, _)
BytesLess(a, b) ==
    IF b = <<>> THEN FALSE
    ELSE IF a = <<>> THEN TRUE
    ELSE IF Head(a) # Head(b) THEN Head(a) < Head(b)
    ELSE BytesLess(Tail(a), Tail(b))

RECURSIVE sorted(_)
sorted(keys) ==
    IF keys = {} THEN <<>>
    ELSE LET least == CHOOSE k \in keys : \A j \in keys \ {k} : BytesLess(k, j)
         IN <<least>> \o sorted(keys \ {least})

\* dict.update: the entries of newer replace those of older
Update(older, newer) ==
    [key \in DOMAIN older \cup DOMAIN newer |->
        IF key \in DOMAIN newer THEN newer[key] ELSE older[key]]

\* alias_lookup with the first alias seen for an identity kept (setdefault).
RECURSIVE alias_lookup_first_wins(_)
alias_lookup_first_wins(self) ==
    IF self.head = "Variable" THEN [key \in {self.identity} |-> self.print_alias]
    ELSE IF self.head \in UnaryHeads THEN alias_lookup_first_wins(self.a)
    ELSE IF self.head \in BinaryHeads
    THEN Update(alias_lookup_first_wins(self.b), alias_lookup_first_wins(self.a))
    ELSE EmptyDict

\* The dict alias_lookup that variables() fills: the terms are visited in
\* order and each entry replaces an earlier one of the same identity.
RECURSIVE alias_lookup(_)
alias_lookup(self) ==
    IF self.head = "Variable" THEN [key \in {self.identity} |-> self.print_alias]
    ELSE IF self.head \in UnaryHeads THEN alias_lookup(self.a)
    ELSE IF self.head \in BinaryHeads
    THEN Update(alias_lookup(self.a), alias_lookup(self.b))
    ELSE EmptyDict

\* [(key, alias_lookup[key]) for key in sorted_keys]
items(lookup, sorted_keys) ==
    [i \in 1..Len(sorted_keys) |-> <<sorted_keys[i], lookup[sorted_keys[i]]>>]

\* The list of <<identity, alias>> in descending order of identity.
variables_descending(self) ==
    LET lookup == alias_lookup(self)
        keys == sorted(DOMAIN lookup)
    IN items(lookup, [i \in 1..Len(keys) |-> keys[Len(keys) + 1 - i]])

\* The list of <<identity, alias>>, sorted by identity.
variables(self) ==
    LET lookup == alias_lookup(self)
    IN items(lookup, sorted(DOMAIN lookup))

\* _serialisation_details of each class.
RECURSIVE _serialise(_, _, _)
_serialisation_details(self, variable_lookup, byteorder) ==
    CASE self.head = "Constant" -> encode_numeric(self.value, byteorder)
      [] self.head = "Variable" ->
            IF self.identity \in DOMAIN variable_lookup
            THEN to_bytes(variable_lookup[self.identity], variable_index_bytes)
            ELSE Raise("KeyError")
      [] self.head \in UnaryHeads -> _serialise(self.a, variable_lookup, byteorder)
      [] OTHER ->
            Then(_serialise(self.a, variable_lookup, byteorder), LAMBDA a :
            Then(_serialise(self.b, variable_lookup, byteorder), LAMBDA b :
                 Return(a \o b)))

\* _serialise: the tag byte, then _serialisation_details.  A class without an
\* entry in expression_encoding returns None, and adding None to bytes is a
\* TypeError.
_serialise(self, variable_lookup, byteorder) ==
    IF self.head \notin DOMAIN expression_encoding THEN Raise("TypeError")
    ELSE Then(to_bytes(expression_encoding[self.head], expression_bytes), LAMBDA tag :
         Then(_serialisation_details(self, variable_lookup, byteorder), LAMBDA details :
              Return(tag \o details)))

\* {var: ind for ind, var in enumerate(variable_ids)}
enumerate_lookup(vs) ==
    [id \in {vs[i][1] : i \in DOMAIN vs} |-> (CHOOSE i \in DOMAIN vs : vs[i][1] = id) - 1]

\* serialise once variables() is known.
serialise_with(self, vs, byteorder) ==
    Then(encode_variable_table(vs), LAMBDA variable_table :
    Then(_serialise(self, enumerate_lookup(vs), byteorder), LAMBDA body :
         Return(variable_table \o body)))

serialise(self, byteorder) == serialise_with(self, variables(self), byteorder)

\* A Variable read from a one-byte index.
Variable_create_from_one_byte(data, variable_lookup) ==
    LET variable_index == from_bytes(Slice(data, 0, 1))
    IN IF variable_index >= Len(variable_lookup) THEN Raise("IndexError")
       ELSE Return(<<variable_lookup[variable_index + 1], 1>>)

\* Variable._create_from_bytes
Variable_create_from_bytes(data, variable_lookup) ==
    LET variable_index == from_bytes(Slice(data, 0, variable_index_bytes))
    IN IF variable_index >= Len(variable_lookup) THEN Raise("IndexError")
       ELSE Return(<<variable_lookup[variable_index + 1], variable_index_bytes>>)

\* Constant._create_from_bytes
Constant_create_from_bytes(data, byteorder) ==
    Then(decode_numeric_with_size(data, byteorder),
         LAMBDA number : Return(<<Constant(number[1]), number[2]>>))

\* _create_from_bytes of each class.  Returns <<tree, consumed size>>.
RECURSIVE _deserialise_with_size(_, _, _)
_create_from_bytes(expr_cls, rest, variable_lookup, byteorder) ==
    CASE expr_cls = "Constant" -> Constant_create_from_bytes(rest, byteorder)
      [] expr_cls = "Variable" -> Variable_create_from_bytes(rest, variable_lookup)
      [] expr_cls \in UnaryHeads ->
            Then(_deserialise_with_size(rest, variable_lookup, byteorder),
                 LAMBDA a : Return(<<Unary(expr_cls, a[1]), a[2]>>))
      [] OTHER ->
            Then(_deserialise_with_size(rest, variable_lookup, byteorder), LAMBDA a :
            Then(_deserialise_with_size(SliceFrom(rest, a[2]), variable_lookup, byteorder),
                 LAMBDA b : Return(<<Binary(expr_cls, a[1], b[1]), a[2] + b[2]>>)))

\* Expression._deserialise_with_size.  Returns <<tree, consumed size>>.
_deserialise_with_size(data, variable_lookup, byteorder) ==
    IF from_bytes(Slice(data, 0, expression_bytes)) \notin DOMAIN expression_decoding
    THEN Raise("KeyError")
    ELSE Then(_create_from_bytes(
                 expression_decoding[from_bytes(Slice(data, 0, expression_bytes))],
                 SliceFrom(data, expression_bytes), variable_lookup, byteorder),
              LAMBDA created : Return(<<created[1], expression_bytes + created[2]>>))

\* The Variable objects made from the table.
table_variables(variable_table) ==
    [i \in 1..Len(variable_table) |-> Variable(variable_table[i][1], variable_table[i][2])]

deserialise_with_size(data, byteorder) ==
    Then(decode_variable_table_with_size(data), LAMBDA table :
    Then(_deserialise_with_size(SliceFrom(data, table[2]),
                                table_variables(table[1]), byteorder),
         LAMBDA expr : Return(<<expr[1], table[2] + expr[2]>>)))

deserialise(data, byteorder) ==
    Then(deserialise_with_size(data, byteorder), LAMBDA r : Return(r[1]))

(***************************************************************************)
(* Calls of Expression.match.                                              *)
(***************************************************************************)
MatchLeaves == {x, y, Num(0), Num(1)}

MatchExpressions ==
    MatchLeaves
    \cup {Binary(h, a, b) : h \in {"Plus", "Times", "Power"}, a \in MatchLeaves, b \in MatchLeaves}
    \cup {Neg(a) : a \in MatchLeaves}
    \cup {Times(Power(a, b), Power(c, d)) : a \in {x, y}, b \in {x, Num(1)},
                                            c \in {x, y}, d \in {x, Num(1)}}
    \cup {Plus(a, Neg(b)) : a \in {x, y}, b \in {x, y}}
    \cup {w1, Plus(w1, x)}

MatchPatterns ==
    {simplification_substitutions[i][1] : i \in DOMAIN simplification_substitutions}
    \cup {w1, x, Num(1), Plus(w1, w1), Times(w1, w1), Plus(w1, w2), Plus(x, w1),
          Plus(w1, Neg(w1)), Plus(x, y)}

InitMatch ==
    /\ pc = "call"
    /\ \E p \in MatchPatterns, e \in MatchExpressions :
          call = [op |-> "match", self |-> p, expression |-> e]
    /\ wire = <<>>
    /\ ret = <<>>

Match ==
    /\ pc = "call"
    /\ call.op = "match"
    /\ ret' = Append(ret, match(call.self, call.expression))
    /\ pc' = "done"
    /\ UNCHANGED <<call, wire>>

NextMatch == Match

SpecMatch == InitMatch /\ [][NextMatch]_vars

(***************************************************************************)
(* Calls of simplify, then either simplify on its result or the evaluation *)
(* of the tree and of its simplified form under one assignment.            *)
(***************************************************************************)
SimplifyLeaves == {x, y, Num(0), Num(1), Num(2)}

SimplifyLevel1 ==
    {Binary(h, a, b) : h \in BinaryHeads, a \in SimplifyLeaves, b \in SimplifyLeaves}
    \cup {Unary(h, a) : h \in UnaryHeads, a \in SimplifyLeaves}

SimplifyInner ==
    {x, Num(1), Neg(x), Neg(y), Power(x, Num(2)), Power(y, Num(2)), Power(x, y),
     Exp(x), Exp(y), Log(x), Log(y), Plus(x, Num(0)), Times(Num(0), y),
     Plus(Num(1), Num(1)), Minus(x, y)}

SimplifyLevel2 ==
    {Binary(h, a, b) : h \in {"Plus", "Minus", "Times", "Power"},
                       a \in SimplifyInner, b \in SimplifyInner}
    \cup {Unary(h, a) : h \in {"Neg", "Exp", "Log"}, a \in SimplifyInner}
    \cup {Neg(Neg(Neg(x))), Plus(Neg(Neg(x)), Neg(Neg(y))),
          Times(Plus(x, Num(0)), Plus(Num(0), Neg(Neg(y))))}

SimplifyTrees == SimplifyLeaves \cup SimplifyLevel1 \cup SimplifyLevel2

GridValues == {-1, 0, 1, 2}
Grid == {[id \in {IdX, IdY} |-> IntV(IF id = IdX THEN vx ELSE vy)] :
            vx \in GridValues, vy \in GridValues}

InitSimplify ==
    /\ pc = "call"
    /\ \E t \in SimplifyTrees : call = [op |-> "simplify", self |-> t]
    /\ wire = <<>>
    /\ ret = <<>>

\* self.simplify()
Simplify ==
    /\ pc = "call"
    /\ call.op = "simplify"
    /\ ret' = Append(ret, simplify(call.self, 1))
    /\ pc' = "simplified"
    /\ UNCHANGED <<call, wire>>

\* simplify() on the tree the first call returned
SimplifyAgain ==
    /\ pc = "simplified"
    /\ ~Raised(ret[1])
    /\ ret' = Append(ret, simplify(ret[1].val, 2))
    /\ pc' = "done"
    /\ UNCHANGED <<call, wire>>

\* self(variable_map) and self.simplify()(variable_map)
Evaluate ==
    /\ pc = "simplified"
    /\ ~Raised(ret[1])
    /\ \E variable_map \in Grid :
          /\ call' = [op |-> "evaluate", self |-> call.self, variable_map |-> variable_map]
          /\ ret' = ret \o <<evaluate(call.self, variable_map),
                             evaluate(ret[1].val, variable_map)>>
    /\ pc' = "evaluated"
    /\ UNCHANGED wire

NextSimplify == Simplify \/ SimplifyAgain \/ Evaluate

SpecSimplify == InitSimplify /\ [][NextSimplify]_vars

(***************************************************************************)
(* Calls of encode_bytestring, then decode_bytestring_with_size on the     *)
(* encoding followed by padding.                                           *)
(***************************************************************************)
MaxPayload == 2
MaxPad == 2
PayloadBytes == {0, 1, 255}
PadBytes == {0, 2, 255}

BytesUpTo(S, n) == UNION {[1..k -> S] : k \in 0..n}

Pads == BytesUpTo(PadBytes, MaxPad)

InitBytes ==
    /\ pc = "call"
    /\ \E b \in BytesUpTo(PayloadBytes, MaxPayload), pad \in Pads :
          call = [op |-> "bytestring", data |-> b, pad |-> pad]
    /\ wire = <<>>
    /\ ret = <<>>

\* encode_bytestring(data), the padding put behind the result
EncodeBytestring ==
    /\ pc = "call"
    /\ call.op = "bytestring"
    /\ LET encoded == encode_bytestring(call.data)
       IN /\ ret' = Append(ret, encoded)
          /\ wire' = IF Raised(encoded) THEN wire ELSE encoded.val \o call.pad
    /\ pc' = "encoded"
    /\ UNCHANGED call

DecodeBytestring ==
    /\ pc = "encoded"
    /\ call.op = "bytestring"
    /\ ~Raised(ret[1])
    /\ ret' = Append(ret, decode_bytestring_with_size(wire))
    /\ pc' = "decoded"
    /\ UNCHANGED <<call, wire>>

NextBytes == EncodeBytestring \/ DecodeBytestring

SpecBytes == InitBytes /\ [][NextBytes]_vars

(***************************************************************************)
(* Calls of encode_numeric, then decode_numeric_with_size, on a machine of *)
(* either byte order.                                                      *)
(***************************************************************************)
MaxDims == 2
MaxDim == 2

ByteOrders == {"little", "big"}

IntScalars == {IntV(i) : i \in {-2147483647, -65536, -1, 0, 1, 258, 2147483647}}
FloatScalars == {FloatV(0, 1), FloatV(1, 1), FloatV(-1, 1), FloatV(1, 2), FloatV(-5, 2),
                 FloatV(3, 1024), FloatV(1000, 1)}

IntElements == <<IntV(-1), IntV(258), IntV(0)>>
FloatElements == <<FloatV(1, 2), FloatV(-3, 1), FloatV(0, 1)>>

Shapes == UNION {[1..k -> 0..MaxDim] : k \in 1..MaxDims}

\* The arrays of a shape: the elements repeat a pattern from an offset on.
Arrays ==
    {ArrayV(kind, shape,
            [i \in 1..Product(shape) |->
                IF kind = "int" THEN IntElements[((i + off) % 3) + 1]
                ELSE FloatElements[((i + off) % 3) + 1]]) :
        kind \in {"int", "float"}, shape \in Shapes, off \in 0..1}

InitNumeric ==
    /\ pc = "call"
    /\ \E v \in IntScalars \cup FloatScalars \cup Arrays, byteorder \in ByteOrders :
          call = [op |-> "numeric", number |-> v, byteorder |-> byteorder]
    /\ wire = <<>>
    /\ ret = <<>>

EncodeNumeric ==
    /\ pc = "call"
    /\ call.op = "numeric"
    /\ LET encoded == encode_numeric(call.number, call.byteorder)
       IN /\ ret' = Append(ret, encoded)
          /\ wire' = IF Raised(encoded) THEN wire ELSE encoded.val
    /\ pc' = "encoded"
    /\ UNCHANGED call

DecodeNumeric ==
    /\ pc = "encoded"
    /\ call.op = "numeric"
    /\ ~Raised(ret[1])
    /\ ret' = Append(ret, decode_numeric_with_size(wire, call.byteorder))
    /\ pc' = "decoded"
    /\ UNCHANGED <<call, wire>>

NextNumeric == EncodeNumeric \/ DecodeNumeric

SpecNumeric == InitNumeric /\ [][NextNumeric]_vars

(***************************************************************************)
(* Calls of encode_variable_table, then decode_variable_table_with_size on *)
(* the encoding followed by padding.                                       *)
(***************************************************************************)
MaxVars == 2

IdLong == <<121, 0>>     \* b"y\x00"
IdHigh == <<255>>        \* b"\xff"
AliasA == Alias(<<97>>)            \* "a"
AliasB == Alias(<<98>>)            \* "b"
AliasWide == Alias(<<233, 8364>>)  \* two characters of 2 and 3 bytes

TableEntries == {<<id, alias>> : id \in {IdX, IdLong, IdHigh},
                                 alias \in {NoAlias, AliasA, AliasWide}}

InitVarTable ==
    /\ pc = "call"
    /\ \E L \in BytesUpTo(TableEntries, MaxVars), pad \in Pads :
          call = [op |-> "variable_table", variables |-> L, pad |-> pad]
    /\ wire = <<>>
    /\ ret = <<>>

EncodeVariableTable ==
    /\ pc = "call"
    /\ call.op = "variable_table"
    /\ LET encoded == encode_variable_table(call.variables)
       IN /\ ret' = Append(ret, encoded)
          /\ wire' = IF Raised(encoded) THEN wire ELSE encoded.val \o call.pad
    /\ pc' = "encoded"
    /\ UNCHANGED call

DecodeVariableTable ==
    /\ pc = "encoded"
    /\ call.op = "variable_table"
    /\ ~Raised(ret[1])
    /\ ret' = Append(ret, decode_variable_table_with_size(wire))
    /\ pc' = "decoded"
    /\ UNCHANGED <<call, wire>>

NextVarTable == EncodeVariableTable \/ DecodeVariableTable

SpecVarTable == InitVarTable /\ [][NextVarTable]_vars

(***************************************************************************)
(* Calls of serialise, then deserialise on the encoding followed by        *)
(* padding, on a machine of either byte order.                             *)
(***************************************************************************)
xa == Variable(IdX, AliasA)
xb == Variable(IdX, AliasB)
ya == Variable(IdY, AliasWide)
Half == Constant(FloatV(1, 2))

CodecLeaves == {x, xa, xb, ya, Num(0), Num(-1), Num(300), Half, Constant(FloatV(-5, 2))}
CodecInner == {x, xb, ya, Num(300)}

CodecTrees ==
    CodecLeaves
    \cup {Binary(h, a, b) : h \in {"Plus", "Divide", "Power"},
                            a \in CodecLeaves, b \in CodecLeaves}
    \cup {Unary(h, a) : h \in {"Neg", "Sin", "Sign"}, a \in CodecLeaves}
    \cup {Minus(Unary(h, a), Times(b, c)) : h \in {"Log", "Abs"}, a \in CodecInner,
                                            b \in CodecInner, c \in CodecInner}
    \cup {Modulo(Exp(a), Cos(b)) : a \in CodecInner, b \in CodecInner}

InitCodec ==
    /\ pc = "call"
    /\ \E t \in CodecTrees, pad \in Pads, byteorder \in ByteOrders :
          call = [op |-> "serialise", self |-> t, pad |-> pad, byteorder |-> byteorder]
    /\ wire = <<>>
    /\ ret = <<>>

Serialise ==
    /\ pc = "call"
    /\ call.op = "serialise"
    /\ LET encoded == serialise(call.self, call.byteorder)
       IN /\ ret' = Append(ret, encoded)
          /\ wire' = IF Raised(encoded) THEN wire ELSE encoded.val \o call.pad
    /\ pc' = "encoded"
    /\ UNCHANGED call

Deserialise ==
    /\ pc = "encoded"
    /\ call.op = "serialise"
    /\ ~Raised(ret[1])
    /\ ret' = Append(ret, deserialise(wire, call.byteorder))
    /\ pc' = "decoded"
    /\ UNCHANGED <<call, wire>>

NextCodec == Serialise \/ Deserialise

SpecCodec == InitCodec /\ [][NextCodec]_vars

(***************************************************************************)
(* Calls of diff on a*e1 + b*e2, then of diff on e1 and on e2 and of       *)
(* simplify on the sum a*diff(e1) + b*diff(e2) that the operators build.   *)
(***************************************************************************)
DiffTrees ==
    {x, Num(2), Times(x, y), Power(x, Num(2)), Plus(Times(x, x), Neg(y)), Minus(x, y),
     Exp(x), Neg(Neg(x)), Abs(x), Divide(x, Num(2)), Modulo(x, Num(2)), Sin(x)}

DiffFactorsA == {IntV(0), IntV(2), FloatV(1, 2)}
DiffFactorsB == {IntV(1), IntV(-1)}

\* a * e1 + b * e2, as __rmul__ and __add__ build it
LinearCombination(a, e1, b, e2) == Plus(Times(Constant(a), e1), Times(Constant(b), e2))

InitDiff ==
    /\ pc = "call"
    /\ \E e1 \in DiffTrees, e2 \in DiffTrees, v \in {x, y},
          a \in DiffFactorsA, b \in DiffFactorsB :
          call = [op |-> "diff", e1 |-> e1, e2 |-> e2, term |-> v, a |-> a, b |-> b]
    /\ wire = <<>>
    /\ ret = <<>>

\* (a * e1 + b * e2).diff(v)
DiffOfSum ==
    /\ pc = "call"
    /\ call.op = "diff"
    /\ ret' = Append(ret, diff(LinearCombination(call.a, call.e1, call.b, call.e2),
                               call.term, 1))
    /\ pc' = "differentiated"
    /\ UNCHANGED <<call, wire>>

\* (a * e1.diff(v) + b * e2.diff(v)).simplify()
SumOfDiffs ==
    /\ pc = "differentiated"
    /\ call.op = "diff"
    /\ LET d1 == diff(call.e1, call.term, 2)
           d2 == diff(call.e2, call.term, 3)
       IN ret' = Append(ret, IF Raised(d1) THEN d1
                             ELSE IF Raised(d2) THEN d2
                             ELSE simplify(LinearCombination(call.a, d1.val,
                                                             call.b, d2.val), 4))
    /\ pc' = "done"
    /\ UNCHANGED <<call, wire>>

NextDiff == DiffOfSum \/ SumOfDiffs

SpecDiff == InitDiff /\ [][NextDiff]_vars

(***************************************************************************)
(* Calls of fast_diff and of diff on one tree, then the evaluation of the  *)
(* derivative that diff returned under a binding of x and y.               *)
(***************************************************************************)
CalcLeaves ==
    {x, xa, xb, y, ya, Num(0), Num(1), Num(-3), Half, Constant(NumpyV(FloatV(1, 1)))}

CalcTrees ==
    CalcLeaves
    \cup {Sin(x), Cos(x), Sin(y), Cos(xa), Abs(x), Exp(x), Plus(x, Num(1)), Times(x, y)}
    \cup {w1, Sign(x), Neg(Sign(x)), Neg(w1), Plus(x, w1), Times(Sign(x), y),
          Times(x, Sign(y)), Exp(Neg(w2)), Power(Sign(x), Num(2)), Modulo(x, Sign(x)),
          Sin(Sign(x)), Abs(Abs(w1))}

CalcTerms == {x, xa, y}

CalcBindings == {[id \in {IdX, IdY} |-> IntV(IF id = IdX THEN vx ELSE 0)] : vx \in {0, 1}}

InitCalc ==
    /\ pc = "call"
    /\ \E self \in CalcTrees, term \in CalcTerms, at \in CalcBindings :
          call = [op |-> "fast_diff", self |-> self, term |-> term, at |-> at]
    /\ wire = <<>>
    /\ ret = <<>>

\* self.fast_diff(term)
FastDiff ==
    /\ pc = "call"
    /\ call.op = "fast_diff"
    /\ ret' = Append(ret, fast_diff(call.self, call.term, 1))
    /\ pc' = "raw"
    /\ UNCHANGED <<call, wire>>

\* self.diff(term)
Diff ==
    /\ pc = "raw"
    /\ call.op = "fast_diff"
    /\ ret' = Append(ret, diff(call.self, call.term, 2))
    /\ pc' = "differentiated"
    /\ UNCHANGED <<call, wire>>

\* self.diff(term)(at), where diff returned
EvaluateDerivative ==
    /\ pc = "differentiated"
    /\ call.op = "fast_diff"
    /\ ret' = Append(ret, Then(ret[2], LAMBDA derivative : evaluate(derivative, call.at)))
    /\ pc' = "done"
    /\ UNCHANGED <<call, wire>>

NextCalc == FastDiff \/ Diff \/ EvaluateDerivative

SpecCalc == InitCalc /\ [][NextCalc]_vars

(***************************************************************************)
(* The operators + - * / % ** between a tree and a Python value: t op n,   *)
(* then n op t.                                                            *)
(***************************************************************************)
OperatorTrees ==
    {x, xa, Num(0), Num(2), Half, Plus(x, Num(0)), Times(Num(1), y), Neg(x), w1, Sin(x),
     Divide(x, x)}

\* ints and floats, and a function object for a value that is neither a
\* number nor a tree
OperatorValues == {IntV(0), IntV(1), IntV(-2), FloatV(1, 2), FloatV(0, 1), FnV(7)}

InitOperators ==
    /\ pc = "call"
    /\ \E cls \in BinaryHeads, t \in OperatorTrees, n \in OperatorValues :
          call = [op |-> "operator", cls |-> cls, t |-> t, n |-> n]
    /\ wire = <<>>
    /\ ret = <<>>

\* t op n
TreeOpValue ==
    /\ pc = "call"
    /\ call.op = "operator"
    /\ ret' = Append(ret, BinaryApply(call.cls, PyExpr(call.t), PyNum(call.n)))
    /\ pc' = "applied"
    /\ UNCHANGED <<call, wire>>

\* n op t
ValueOpTree ==
    /\ pc = "applied"
    /\ call.op = "operator"
    /\ ret' = Append(ret, BinaryApply(call.cls, PyNum(call.n), PyExpr(call.t)))
    /\ pc' = "done"
    /\ UNCHANGED <<call, wire>>

NextOperators == TreeOpValue \/ ValueOpTree

SpecOperators == InitOperators /\ [][NextOperators]_vars

(***************************************************************************)
(* Calls of a tree on a binding map that may lack x, y or both.            *)
(***************************************************************************)
EvaluateTrees ==
    {x, y, xa, Num(3), Plus(x, y), Plus(Num(1), Num(2)), Times(Num(0), x), Neg(y), Abs(x),
     Divide(x, y), Power(x, Num(2)), Minus(Divide(Num(1), Num(0)), x),
     Minus(x, Divide(Num(1), Num(0))), Modulo(Num(5), y), Plus(Times(x, x), Neg(y)),
     Exp(Times(Num(0), y))}

BindingValues == {IntV(0), IntV(2)}

Bindings == UNION {[ids -> BindingValues] : ids \in SUBSET {IdX, IdY}}

InitEvaluate ==
    /\ pc = "call"
    /\ \E self \in EvaluateTrees, variable_map \in Bindings :
          call = [op |-> "call", self |-> self, variable_map |-> variable_map]
    /\ wire = <<>>
    /\ ret = <<>>

\* self(variable_map)
Call ==
    /\ pc = "call"
    /\ call.op = "call"
    /\ ret' = Append(ret, evaluate(call.self, call.variable_map))
    /\ pc' = "done"
    /\ UNCHANGED <<call, wire>>

NextEvaluate == Call

SpecEvaluate == InitEvaluate /\ [][NextEvaluate]_vars

(***************************************************************************)
(* Calls of substitute with a source and a target pattern.                 *)
(***************************************************************************)
SubstituteRoots ==
    {x, Num(1), Plus(x, Num(0)), Times(Plus(x, Num(0)), y), Neg(Neg(y)), Plus(x, w1),
     Exp(Num(0)), Neg(Neg(Neg(x))), Plus(Plus(x, Num(0)), Num(0)),
     Times(Neg(Neg(x)), Plus(y, x))}

SubstituteSources ==
    {Plus(w1, Num(0)), Neg(Neg(w1)), Times(w1, w2), x, Exp(Num(0)), w3, Plus(w1, w2),
     Neg(w1)}

SubstituteTargets ==
    {w1, w2, Num(1), Plus(w1, w2), Times(w2, w3), Neg(w1), y, Plus(w2, w1),
     Neg(Neg(w1))}

InitSubstitute ==
    /\ pc = "call"
    /\ \E self \in SubstituteRoots, source \in SubstituteSources,
          target \in SubstituteTargets :
          call = [op |-> "substitute", self |-> self,
                  source_pattern |-> source, target_pattern |-> target]
    /\ wire = <<>>
    /\ ret = <<>>

\* self.substitute(source_pattern, target_pattern)
Substitute ==
    /\ pc = "call"
    /\ call.op = "substitute"
    /\ ret' = Append(ret, substitute(call.self, call.source_pattern, call.target_pattern))
    /\ pc' = "done"
    /\ UNCHANGED <<call, wire>>

NextSubstitute == Substitute

SpecSubstitute == InitSubstitute /\ [][NextSubstitute]_vars

(***************************************************************************)
(* Calls of serialise, then damage to the bytes (a cut, a node tag that    *)
(* names no class, a variable index beyond the table), then                *)
(* deserialise_with_size on the damaged bytes.                             *)
(***************************************************************************)
DecodeTrees ==
    {x, Num(300), Half, Plus(x, ya), Neg(xa), Times(Num(2), x), Power(y, Half),
     Sin(Plus(x, y))}

BadTags == {0, 16, 255}

\* The nodes of self, each with the offset, counted from 0, of its tag byte
\* in bytes whose first node tag is at offset start.
RECURSIVE TagOffsets(_, _, _, _)
TagOffsets(self, variable_lookup, byteorder, start) ==
    {<<start, self>>}
    \cup (IF self.head \in UnaryHeads \cup BinaryHeads
          THEN TagOffsets(self.a, variable_lookup, byteorder, start + expression_bytes)
          ELSE {})
    \cup (IF self.head \in BinaryHeads
          THEN TagOffsets(self.b, variable_lookup, byteorder,
                          start + expression_bytes
                          + Len(_serialise(self.a, variable_lookup, byteorder).val))
          ELSE {})

\* data with the bytes from offset at on replaced by bytes
Overwrite(data, at, bytes) ==
    [i \in 1..Len(data) |->
        IF i > at /\ i <= at + Len(bytes) THEN bytes[i - at] ELSE data[i]]

\* The damaged forms of the serialisation data of self.
Damages(self, data, byteorder) ==
    LET vs == variables(self)
        table_length == Len(encode_variable_table(vs).val)
        nodes == TagOffsets(self, enumerate_lookup(vs), byteorder, table_length)
    IN {[kind |-> "truncated", data |-> SubSeq(data, 1, k)] : k \in 0..(Len(data) - 1)}
       \cup {[kind |-> "tag", data |-> Overwrite(data, node[1], <<tag>>)] :
                node \in nodes, tag \in BadTags}
       \cup {[kind |-> "index",
              data |-> Overwrite(data, node[1] + expression_bytes, BigEndian(index, 2))] :
                node \in {n \in nodes : n[2].head = "Variable"},
                index \in {Len(vs), Len(vs) + 1, 65535}}

InitDecode ==
    /\ pc = "call"
    /\ \E self \in DecodeTrees, byteorder \in ByteOrders :
          call = [op |-> "deserialise", self |-> self, byteorder |-> byteorder,
                  damage |-> "none"]
    /\ wire = <<>>
    /\ ret = <<>>

\* self.serialise()
SerialiseIntact ==
    /\ pc = "call"
    /\ call.op = "deserialise"
    /\ ~Raised(serialise(call.self, call.byteorder))
    /\ ret' = Append(ret, serialise(call.self, call.byteorder))
    /\ wire' = serialise(call.self, call.byteorder).val
    /\ pc' = "encoded"
    /\ UNCHANGED call

\* The bytes are damaged on the way to the decoder.
Damage ==
    /\ pc = "encoded"
    /\ call.op = "deserialise"
    /\ \E damaged \in Damages(call.self, wire, call.byteorder) :
          /\ wire' = damaged.data
          /\ call' = [call EXCEPT !.damage = damaged.kind]
    /\ pc' = "damaged"
    /\ UNCHANGED ret

\* Expression.deserialise_with_size(data)
DeserialiseDamaged ==
    /\ pc = "damaged"
    /\ call.op = "deserialise"
    /\ ret' = Append(ret, deserialise_with_size(wire, call.byteorder))
    /\ pc' = "decoded"
    /\ UNCHANGED <<call, wire>>

NextDecode == SerialiseIntact \/ Damage \/ DeserialiseDamaged

SpecDecode == InitDecode /\ [][NextDecode]_vars

(***************************************************************************)
(* Calls of encode_variable_table on a list of count copies of one entry,  *)
(* with counts up to MaxCount and counts around variable_index_max.        *)
(***************************************************************************)
MaxCount == 3

variable_index_max == 256 ^ variable_index_bytes

TableCounts == 0..MaxCount \cup {variable_index_max + k : k \in 0..MaxCount}

InitVarCount ==
    /\ pc = "call"
    /\ \E entry \in TableEntries, count \in TableCounts :
          call = [op |-> "encode_variable_table", entry |-> entry, count |-> count]
    /\ wire = <<>>
    /\ ret = <<>>

\* encode_variable_table([entry] * count)
EncodeCount ==
    /\ pc = "call"
    /\ call.op = "encode_variable_table"
    /\ ret' = Append(ret, encode_variable_table([i \in 1..call.count |-> call.entry]))
    /\ pc' = "done"
    /\ UNCHANGED <<call, wire>>

NextVarCount == EncodeCount

SpecVarCount == InitVarCount /\ [][NextVarCount]_vars

(***************************************************************************)
(* Calls of reduce_constants.                                              *)
(***************************************************************************)
FoldLeaves == {x, Num(0), Num(2), Half}

FoldTrees ==
    FoldLeaves
    \cup {Unary(cls, a) : cls \in UnaryHeads, a \in FoldLeaves}
    \cup {Binary(cls, a, b) : cls \in BinaryHeads, a \in FoldLeaves, b \in FoldLeaves}
    \cup {Neg(Sin(x)), Plus(Sin(x), Num(2)), Sin(Sin(x)), Cos(Neg(x)),
          Sin(Plus(Num(0), Num(0))), Times(Num(2), Plus(Num(2), Num(2))),
          Plus(x, Plus(Num(0), Num(2))), Divide(Plus(x, Num(2)), Num(2)),
          Times(y, Divide(Num(2), x)), Exp(Minus(x, Half)),
          Neg(Abs(Minus(Num(0), Num(2)))), Power(Plus(Num(2), Half), Num(2)),
          Divide(Num(2), Minus(Num(2), Num(2))), Sign(Neg(Plus(Half, Half))),
          Minus(Exp(Num(0)), Neg(Modulo(Num(2), Half)))}

InitFold ==
    /\ pc = "call"
    /\ \E self \in FoldTrees :
          call = [op |-> "reduce_constants", self |-> self]
    /\ wire = <<>>
    /\ ret = <<>>

\* self.reduce_constants(); a function object the pass allocates is object 1
ReduceConstants ==
    /\ pc = "call"
    /\ call.op = "reduce_constants"
    /\ ret' = Append(ret, reduce_constants(call.self, 1))
    /\ pc' = "done"
    /\ UNCHANGED <<call, wire>>

NextFold == ReduceConstants

SpecFold == InitFold /\ [][NextFold]_vars

(***************************************************************************)
(* Calls of fast_diff on one node of every differentiable class over       *)
(* operands that are leaves, sums, products and functions.                 *)
(***************************************************************************)
RuleOperands == {x, y, Num(2), Plus(x, Num(1)), Times(x, y), Sin(x), Neg(y)}

RuleTrees ==
    {Unary(cls, a) : cls \in UnaryHeads \ {"Sign"}, a \in RuleOperands}
    \cup {Binary(cls, a, b) : cls \in BinaryHeads, a \in RuleOperands, b \in RuleOperands}

InitRules ==
    /\ pc = "call"
    /\ \E self \in RuleTrees, term \in {x, y} :
          call = [op |-> "rule", self |-> self, term |-> term]
    /\ wire = <<>>
    /\ ret = <<>>

\* self.fast_diff(term)
FastDiffRule ==
    /\ pc = "call"
    /\ call.op = "rule"
    /\ ret' = Append(ret, fast_diff(call.self, call.term, 1))
    /\ pc' = "done"
    /\ UNCHANGED <<call, wire>>

NextRules == FastDiffRule

SpecRules == InitRules /\ [][NextRules]_vars

(***************************************************************************)
(* Calls of simplify(max_iters=n) with small n, on trees that need one,    *)
(* two and three iterations before the tree stops changing.                *)
(***************************************************************************)
MaxIters == 3

\* Plus(e, Neg(Times(0, y))): a fold and two more iterations remove the
\* second operand (Times(0, y) -> 0, Plus(e, Neg(0)) -> Minus(e, 0), then e).
Padded(e) == Plus(e, Neg(Times(Num(0), y)))

LoopTrees ==
    SimplifyLeaves \cup SimplifyInner
    \cup {Neg(Neg(Neg(x))), Plus(Neg(Neg(x)), Neg(Neg(y))),
          Times(Plus(x, Num(0)), Plus(Num(0), Neg(Neg(y)))),
          Padded(x), Padded(Padded(x)), Padded(Times(x, y)), Times(Padded(x), y),
          Neg(Padded(Neg(x))), Padded(Padded(Padded(x))), Exp(Padded(Num(0))),
          Minus(Padded(x), Padded(y)), Power(Padded(x), Num(1))}

InitLoop ==
    /\ pc = "call"
    /\ \E self \in LoopTrees, max_iters \in 0..MaxIters :
          call = [op |-> "simplify_max_iters", self |-> self, max_iters |-> max_iters]
    /\ wire = <<>>
    /\ ret = <<>>

\* self.simplify(max_iters=max_iters)
SimplifyMaxIters ==
    /\ pc = "call"
    /\ call.op = "simplify_max_iters"
    /\ ret' = Append(ret, simplify_loop(call.self, call.self, 0, call.max_iters, 1))
    /\ pc' = "done"
    /\ UNCHANGED <<call, wire>>

NextLoop == SimplifyMaxIters

SpecLoop == InitLoop /\ [][NextLoop]_vars

(***************************************************************************)
(* simplify(debug=True) and diff(term, debug=True): in the debug branch    *)
(* the result of each substitute is bound to newer_expression, which is    *)
(* printed when it is another object than new_expression, and              *)
(* new_expression is left as the fold made it.                             *)
(***************************************************************************)
RECURSIVE rule_sweep_debug(_, _)
rule_sweep_debug(new_expression, i) ==
    IF i > Len(simplification_substitutions) THEN Return(new_expression)
    ELSE Then(substitute(new_expression,
                         simplification_substitutions[i][1],
                         simplification_substitutions[i][2]),
              LAMBDA newer_expression : rule_sweep_debug(new_expression, i + 1))

simplify_pass_debug(new_expression, obj) ==
    Then(reduce_constants(new_expression, obj),
         LAMBDA reduced : rule_sweep_debug(reduced, 1))

RECURSIVE simplify_loop_debug(_, _, _, _, _)
simplify_loop_debug(last_expression, new_expression, i, max_iters, obj) ==
    IF i >= max_iters THEN Return(last_expression)
    ELSE Then(simplify_pass_debug(new_expression, obj),
              LAMBDA swept :
                 IF full_identity(swept, last_expression) THEN Return(swept)
                 ELSE simplify_loop_debug(swept, swept, i + 1, max_iters, obj))

simplify_debug(self, obj) == simplify_loop_debug(self, self, 0, DefaultMaxIters, obj)

diff_debug(self, term, obj) ==
    Then(fast_diff(self, term, obj), LAMBDA raw : simplify_debug(raw, obj))

DebugTrees == LoopTrees \cup {Times(x, y), Power(x, Num(2)), Times(x, Exp(y))}

InitDebug ==
    /\ pc = "call"
    /\ \E self \in DebugTrees, term \in {x, y} :
          call = [op |-> "debug", self |-> self, term |-> term]
    /\ wire = <<>>
    /\ ret = <<>>

\* self.simplify(debug=False)
SimplifyQuiet ==
    /\ pc = "call"
    /\ call.op = "debug"
    /\ ret' = Append(ret, simplify(call.self, 1))
    /\ pc' = "simplified"
    /\ UNCHANGED <<call, wire>>

\* self.simplify(debug=True)
SimplifyDebug ==
    /\ pc = "simplified"
    /\ call.op = "debug"
    /\ ret' = Append(ret, simplify_debug(call.self, 1))
    /\ pc' = "simplified_debug"
    /\ UNCHANGED <<call, wire>>

\* self.diff(term, debug=False)
DiffQuiet ==
    /\ pc = "simplified_debug"
    /\ call.op = "debug"
    /\ ret' = Append(ret, diff(call.self, call.term, 1))
    /\ pc' = "differentiated"
    /\ UNCHANGED <<call, wire>>

\* self.diff(term, debug=True)
DiffDebug ==
    /\ pc = "differentiated"
    /\ call.op = "debug"
    /\ ret' = Append(ret, diff_debug(call.self, call.term, 1))
    /\ pc' = "done"
    /\ UNCHANGED <<call, wire>>

NextDebug == SimplifyQuiet \/ SimplifyDebug \/ DiffQuiet \/ DiffDebug

SpecDebug == InitDebug /\ [][NextDebug]_vars

(***************************************************************************)
(* Calls of substitute with one rule of the simplification table, and of   *)
(* simplify, on the same trees.                                            *)
(***************************************************************************)
MeasureTrees ==
    LoopTrees \cup SimplifyLevel1
    \cup {Times(Power(x, Num(2)), Power(x, y)), Times(Power(x, Num(2)), Power(y, Num(2))),
          Times(Exp(x), Exp(Neg(y))), Plus(Log(x), Log(Plus(y, Num(0)))),
          Plus(x, Neg(y)), Plus(Neg(x), Neg(Neg(y))), Minus(Neg(x), Neg(Neg(y))),
          Plus(Times(x, Num(1)), Power(Plus(y, Num(0)), Num(1)))}

InitMeasure ==
    /\ pc = "call"
    /\ \E self \in MeasureTrees :
          \/ \E rule \in DOMAIN simplification_substitutions :
                call = [op |-> "substitute_rule", self |-> self, rule |-> rule]
          \/ call = [op |-> "simplify_default", self |-> self]
    /\ wire = <<>>
    /\ ret = <<>>

\* self.substitute(source, target) for one (source, target) of the table
SubstituteRule ==
    /\ pc = "call"
    /\ call.op = "substitute_rule"
    /\ ret' = Append(ret, substitute(call.self,
                                     simplification_substitutions[call.rule][1],
                                     simplification_substitutions[call.rule][2]))
    /\ pc' = "done"
    /\ UNCHANGED <<call, wire>>

\* self.simplify()
SimplifyDefault ==
    /\ pc = "call"
    /\ call.op = "simplify_default"
    /\ ret' = Append(ret, simplify(call.self, 1))
    /\ pc' = "done"
    /\ UNCHANGED <<call, wire>>

NextMeasure == SubstituteRule \/ SimplifyDefault

SpecMeasure == InitMeasure /\ [][NextMeasure]_vars

(***************************************************************************)
(* Calls of serialise on trees over variables of four identities, met in   *)
(* every order.                                                            *)
(***************************************************************************)
TableOperands ==
    {x, xa, y, Variable(IdLong, NoAlias), Variable(IdHigh, AliasA), Num(300), Neg(y),
     Plus(y, x), Times(Variable(IdHigh, NoAlias), Variable(IdLong, AliasB))}

TableTrees ==
    TableOperands
    \cup {Binary(cls, a, b) : cls \in {"Plus", "Power"}, a \in TableOperands,
                              b \in TableOperands}

InitTable ==
    /\ pc = "call"
    /\ \E self \in TableTrees, byteorder \in ByteOrders :
          call = [op |-> "serialise_table", self |-> self, byteorder |-> byteorder]
    /\ wire = <<>>
    /\ ret = <<>>

\* self.serialise()
SerialiseTable ==
    /\ pc = "call"
    /\ call.op = "serialise_table"
    /\ ~Raised(serialise(call.self, call.byteorder))
    /\ ret' = Append(ret, serialise(call.self, call.byteorder))
    /\ wire' = serialise(call.self, call.byteorder).val
    /\ pc' = "done"
    /\ UNCHANGED call

NextTable == SerialiseTable

SpecTable == InitTable /\ [][NextTable]_vars

(***************************************************************************)
(* The parser, _parse_tokens of parsing.py.  A token is a tuple (text,     *)
(* kind) of the tokeniser, a bare operator string, or an Expression.  The  *)
(* calls of _parse_tokens on the inside of a parenthesis are kept as a     *)
(* stack of frames (left, function name, right) in call.stack; wire holds  *)
(* the list `tokens` of the innermost call.                                *)
(***************************************************************************)
Tuple(text, kind) == [t |-> "tuple", s |-> text, k |-> kind]
OpString(text) == [t |-> "str", s |-> text]
Parsed(e) == [t |-> "expr", e |-> e]

IsParsed(token) == token.t = "expr"

\* identity.encode('utf-8') of the names of the model
NameBytes(text) ==
    CASE text = "x" -> <<120>>
      [] text = "y" -> <<121>>
      [] text = "sin" -> <<115, 105, 110>>

_parse_constant(string) ==
    CASE string = "1" -> Return(Constant(IntV(1)))
      [] string = "-1" -> Return(Constant(IntV(-1)))
      [] OTHER -> Raise("ParseFailed")

unary_function_names == {"exp", "log", "abs", "sign", "cos", "sin", "sqrt"}

\* unary_functions[name](a)
unary_functions(name, a) ==
    CASE name = "exp" -> Exp(a)
      [] name = "log" -> Log(a)
      [] name = "abs" -> Abs(a)
      [] name = "sign" -> Sign(a)
      [] name = "cos" -> Cos(a)
      [] name = "sin" -> Sin(a)
      [] name = "sqrt" -> Power(a, Constant(FloatV(1, 2)))

infix_operators_pre_unary_minus == <<"^", "/", "%", "*">>
infix_operators_post_unary_minus == <<"-", "+">>

infix_class(op_string) ==
    CASE op_string = "^" -> "Power"
      [] op_string = "/" -> "Divide"
      [] op_string = "%" -> "Modulo"
      [] op_string = "*" -> "Times"
      [] op_string = "-" -> "Minus"
      [] op_string = "+" -> "Plus"

\* Step one: the first right parenthesis and the last left parenthesis before
\* it, as positions counted from 1; end = 0 stands for None.
first_innermost(tokens) ==
    LET rights == {i \in DOMAIN tokens : tokens[i] = Tuple(")", "right_paren")}
        end == CHOOSE i \in rights : \A j \in rights : i <= j
        lefts == {i \in 1..(end - 1) : tokens[i] = Tuple("(", "left_paren")}
    IN IF rights = {} THEN Return([start |-> 0, end |-> 0])
       ELSE IF lefts = {} THEN Raise("SyntaxError")
       ELSE Return([start |-> CHOOSE i \in lefts : \A j \in lefts : j <= i, end |-> end])

\* The frame that waits for _parse_tokens(middle): the tokens left of the
\* parenthesis without the function name, the function, the tokens right.
\* left[-1][1] is a TypeError on an Expression and an IndexError on a string
\* of one character.
function_call(tokens, start, end) ==
    LET left == SubSeq(tokens, 1, start - 1)
        right == SubSeq(tokens, end + 1, Len(tokens))
        last == left[Len(left)]
    IN IF Len(left) = 0 THEN Return([left |-> left, name |-> "", right |-> right])
       ELSE IF last.t = "expr" THEN Raise("TypeError")
       ELSE IF last.t = "str" THEN Raise("IndexError")
       ELSE IF last.k # "name" THEN Return([left |-> left, name |-> "", right |-> right])
       ELSE IF last.s \in unary_function_names
       THEN Return([left |-> SubSeq(left, 1, Len(left) - 1), name |-> last.s,
                    right |-> right])
       ELSE Raise("ParseFailed")

\* The conversion of one token of a list without parentheses
convert_symbol(token) ==
    IF token.t = "expr" THEN Return(token)
    ELSE IF token.t = "str" THEN Raise("RuntimeError")
    ELSE CASE token.k = "name" -> Return(Parsed(Variable(NameBytes(token.s), NoAlias)))
           [] token.k = "number" ->
                 Then(_parse_constant(token.s), LAMBDA num : Return(Parsed(num)))
           [] token.k = "op" -> Return(OpString(token.s))
           [] OTHER -> Raise("ParseFailed")

convert_symbols(tokens) == Collect([i \in DOMAIN tokens |-> convert_symbol(tokens[i])])

\* The operators of the list that are present in tokens
present(tokens, operators) ==
    {k \in DOMAIN operators : \E i \in DOMAIN tokens : tokens[i] = OpString(operators[k])}

\* One turn of the inner `while True` for the first operator of the list
\* that is present: the first token equal to it, tokens[token_index - 1] and
\* tokens[token_index + 1] joined.  For token_index = 0 the slice
\* tokens[:token_index - 1] is everything but the last token and
\* tokens[token_index - 1] is the last token.
reduce_infix(tokens, operators, checked) ==
    LET op_string == operators[CHOOSE k \in present(tokens, operators) :
                                  \A j \in present(tokens, operators) : k <= j]
        at == CHOOSE i \in DOMAIN tokens :
                 /\ tokens[i] = OpString(op_string)
                 /\ \A j \in 1..(i - 1) : tokens[j] # OpString(op_string)
        left == IF at = 1 THEN SubSeq(tokens, 1, Len(tokens) - 1)
                ELSE SubSeq(tokens, 1, at - 2)
        a == IF at = 1 THEN tokens[Len(tokens)] ELSE tokens[at - 1]
        b == tokens[at + 1]
        right == SubSeq(tokens, at + 2, Len(tokens))
    IN IF at + 1 > Len(tokens) THEN Raise("IndexError")
       ELSE IF ~IsParsed(a) \/ ~IsParsed(b)
       THEN IF checked THEN Raise("SyntaxError") ELSE Raise("TypeError")
       ELSE Return(left \o <<Parsed(Binary(infix_class(op_string), a.e, b.e))>> \o right)

RECURSIVE NegTimes(_, _)
NegTimes(e, n) == IF n = 0 THEN e ELSE NegTimes(Neg(e), n - 1)

\* The sections, each ending in an Expression, and what they become: the
\* first (neg*) symbol, every later one its first token followed by the
\* symbol with the prefix operators between the two applied; a section of
\* one token gives that token twice.
prefix_operators(tokens) ==
    LET ends == {i \in DOMAIN tokens : IsParsed(tokens[i])}
        before(i) == IF \E j \in ends : j < i
                     THEN CHOOSE j \in ends : j < i /\ \A k \in ends : k < i => k <= j
                     ELSE 0
        prefixes(i) == IF before(i) = 0 THEN (before(i) + 1)..(i - 1)
                       ELSE (before(i) + 2)..(i - 1)
        section(i) ==
            IF before(i) = 0 THEN <<Parsed(NegTimes(tokens[i].e, i - 1))>>
            ELSE <<tokens[before(i) + 1],
                   Parsed(NegTimes(tokens[i].e, Cardinality(prefixes(i))))>>
    IN IF Len(tokens) \notin ends THEN Raise("SyntaxError")
       ELSE IF \E i \in ends : \E j \in prefixes(i) : tokens[j] # OpString("-")
       THEN Raise("SyntaxError")
       ELSE Return(Concat([i \in DOMAIN tokens |->
                              IF i \in ends THEN section(i) ELSE <<>>]))

MaxInput == 4
MaxTokens == 9
MaxReductions == 4

TokenAlphabet ==
    {Tuple("x", "name"), Tuple("sin", "name"), Tuple("1", "number"),
     Tuple("-1", "number"), Tuple("-", "op"), Tuple("*", "op"),
     Tuple("(", "left_paren"), Tuple(")", "right_paren")}

InitParse ==
    /\ pc = "call"
    /\ \E tokens \in BytesUpTo(TokenAlphabet, MaxInput) :
          /\ call = [op |-> "_parse_tokens", tokens |-> tokens, stack |-> <<>>,
                     paren_free |-> FALSE, before |-> 0, reductions |-> 0]
          /\ wire = tokens
    /\ ret = <<>>

\* if len(tokens) == 0: raise SyntaxError
EnterParse ==
    /\ pc = "call"
    /\ call.op = "_parse_tokens"
    /\ IF Len(wire) = 0
       THEN ret' = Append(ret, Raise("SyntaxError")) /\ pc' = "raised"
       ELSE ret' = ret /\ pc' = "scan"
    /\ UNCHANGED <<call, wire>>

\* The top of the outer loop on a list without a closing parenthesis
ScanFlat ==
    /\ pc = "scan"
    /\ Len(wire) <= MaxTokens
    /\ first_innermost(wire) = Return([start |-> 0, end |-> 0])
    /\ call' = [call EXCEPT !.paren_free = TRUE, !.before = Len(wire), !.reductions = 0]
    /\ pc' = "convert"
    /\ UNCHANGED <<wire, ret>>

\* The top of the outer loop on a list with a parenthesis: an error, or the
\* call of _parse_tokens(middle)
ScanParenthesis ==
    /\ pc = "scan"
    /\ Len(wire) <= MaxTokens
    /\ first_innermost(wire) # Return([start |-> 0, end |-> 0])
    /\ LET found == first_innermost(wire)
           frame == Then(found, LAMBDA f : function_call(wire, f.start, f.end))
       IN IF Raised(frame)
          THEN /\ ret' = Append(ret, frame)
               /\ pc' = "raised"
               /\ UNCHANGED <<call, wire>>
          ELSE /\ call' = [call EXCEPT !.stack = Append(call.stack, frame.val),
                                       !.paren_free = FALSE]
               /\ wire' = SubSeq(wire, found.val.start + 1, found.val.end - 1)
               /\ pc' = "call"
               /\ UNCHANGED ret

\* names, numbers and wildcards become Expressions, operators strings
ConvertSymbols ==
    /\ pc = "convert"
    /\ IF Raised(convert_symbols(wire))
       THEN /\ ret' = Append(ret, convert_symbols(wire))
            /\ pc' = "raised"
            /\ UNCHANGED wire
       ELSE /\ wire' = convert_symbols(wire).val
            /\ pc' = "pre"
            /\ UNCHANGED ret
    /\ UNCHANGED call

\* One turn of the inner loop of an operator that binds tighter than the
\* unary minus
ReducePre ==
    /\ pc = "pre"
    /\ present(wire, infix_operators_pre_unary_minus) # {}
    /\ call.reductions < MaxReductions
    /\ LET reduced == reduce_infix(wire, infix_operators_pre_unary_minus, TRUE)
       IN IF Raised(reduced)
          THEN /\ ret' = Append(ret, reduced)
               /\ pc' = "raised"
               /\ UNCHANGED <<wire, call>>
          ELSE /\ wire' = reduced.val
               /\ call' = [call EXCEPT !.reductions = call.reductions + 1]
               /\ UNCHANGED <<pc, ret>>

\* The prefix operators, once no operator of the first list is left
PrefixOperators ==
    /\ pc = "pre"
    /\ present(wire, infix_operators_pre_unary_minus) = {}
    /\ IF Raised(prefix_operators(wire))
       THEN /\ ret' = Append(ret, prefix_operators(wire))
            /\ pc' = "raised"
            /\ UNCHANGED wire
       ELSE /\ wire' = prefix_operators(wire).val
            /\ pc' = "post"
            /\ UNCHANGED ret
    /\ UNCHANGED call

\* One turn of the inner loop of - or +
ReducePost ==
    /\ pc = "post"
    /\ present(wire, infix_operators_post_unary_minus) # {}
    /\ call.reductions < MaxReductions
    /\ LET reduced == reduce_infix(wire, infix_operators_post_unary_minus, FALSE)
       IN IF Raised(reduced)
          THEN /\ ret' = Append(ret, reduced)
               /\ pc' = "raised"
               /\ UNCHANGED <<wire, call>>
          ELSE /\ wire' = reduced.val
               /\ call' = [call EXCEPT !.reductions = call.reductions + 1]
               /\ UNCHANGED <<pc, ret>>

\* The end of the body of the outer loop
EndPass ==
    /\ pc = "post"
    /\ present(wire, infix_operators_post_unary_minus) = {}
    /\ pc' = "passed"
    /\ UNCHANGED <<call, wire, ret>>

\* if len(tokens) == 1: break, not taken
LoopAgain ==
    /\ pc = "passed"
    /\ Len(wire) # 1
    /\ pc' = "scan"
    /\ UNCHANGED <<call, wire, ret>>

\* return tokens[0] to the call that waits for the inside of a parenthesis
ReturnMiddle ==
    /\ pc = "passed"
    /\ Len(wire) = 1
    /\ call.stack # <<>>
    /\ LET frame == call.stack[Len(call.stack)]
           new_middle == IF frame.name = "" THEN wire[1].e
                         ELSE unary_functions(frame.name, wire[1].e)
       IN /\ wire' = frame.left \o <<Parsed(new_middle)>> \o frame.right
          /\ call' = [call EXCEPT !.stack = SubSeq(call.stack, 1, Len(call.stack) - 1),
                                  !.paren_free = FALSE]
    /\ UNCHANGED <<pc, ret>>

\* return tokens[0] to the caller of _parse_tokens
ReturnParsed ==
    /\ pc = "passed"
    /\ Len(wire) = 1
    /\ call.stack = <<>>
    /\ ret' = Append(ret, Return(wire[1].e))
    /\ pc' = "done"
    /\ UNCHANGED <<call, wire>>

NextParse ==
    \/ EnterParse \/ ScanFlat \/ ScanParenthesis \/ ConvertSymbols \/ ReducePre
    \/ PrefixOperators \/ ReducePost \/ EndPass \/ LoopAgain \/ ReturnMiddle
    \/ ReturnParsed

SpecParse == InitParse /\ [][NextParse]_vars

(***************************************************************************)
(* A call of substitute, then simplify on the tree it returned, statement  *)
(* by statement: call.new_expression and call.last_expression are the      *)
(* trees the loop of simplify holds, call.i its iteration and call.rule    *)
(* the next rule of the table.                                             *)
(***************************************************************************)
RewriteMaxIters == {1, DefaultMaxIters}

InitRewrite ==
    /\ pc = "call"
    /\ \E self \in SubstituteRoots, source \in SubstituteSources,
          target \in SubstituteTargets, max_iters \in RewriteMaxIters :
          call = [op |-> "rewrite", self |-> self, source_pattern |-> source,
                  target_pattern |-> target, max_iters |-> max_iters,
                  last_expression |-> self, new_expression |-> self, i |-> 0, rule |-> 1]
    /\ wire = <<>>
    /\ ret = <<>>

\* self.substitute(source_pattern, target_pattern), and the entry of simplify
\* on the result: last_expression = self; new_expression = self
SubstituteFirst ==
    /\ pc = "call"
    /\ call.op = "rewrite"
    /\ LET result == substitute(call.self, call.source_pattern, call.target_pattern)
       IN /\ ret' = Append(ret, result)
          /\ IF Raised(result)
             THEN pc' = "raised" /\ UNCHANGED call
             ELSE /\ pc' = "fold"
                  /\ call' = [call EXCEPT !.last_expression = result.val,
                                          !.new_expression = result.val]
    /\ UNCHANGED wire

\* new_expression = new_expression.reduce_constants()
FoldPass ==
    /\ pc = "fold"
    /\ call.i < call.max_iters
    /\ LET reduced == reduce_constants(call.new_expression, 1)
       IN IF Raised(reduced)
          THEN /\ ret' = Append(ret, reduced)
               /\ pc' = "raised"
               /\ UNCHANGED call
          ELSE /\ call' = [call EXCEPT !.new_expression = reduced.val, !.rule = 1]
               /\ pc' = "rules"
               /\ UNCHANGED ret
    /\ UNCHANGED wire

\* new_expression = new_expression.substitute(source, target)
ApplyRule ==
    /\ pc = "rules"
    /\ call.rule <= Len(simplification_substitutions)
    /\ LET newer == substitute(call.new_expression,
                               simplification_substitutions[call.rule][1],
                               simplification_substitutions[call.rule][2])
       IN IF Raised(newer)
          THEN /\ ret' = Append(ret, newer)
               /\ pc' = "raised"
               /\ UNCHANGED call
          ELSE /\ call' = [call EXCEPT !.new_expression = newer.val,
                                       !.rule = call.rule + 1]
               /\ UNCHANGED <<pc, ret>>
    /\ UNCHANGED wire

\* if new_expression.full_identity(last_expression): break, taken
FixedPoint ==
    /\ pc = "rules"
    /\ call.rule > Len(simplification_substitutions)
    /\ full_identity(call.new_expression, call.last_expression)
    /\ call' = [call EXCEPT !.last_expression = call.new_expression]
    /\ ret' = Append(ret, Return(call.new_expression))
    /\ pc' = "done"
    /\ UNCHANGED wire

\* last_expression = new_expression, and the next iteration
NextIteration ==
    /\ pc = "rules"
    /\ call.rule > Len(simplification_substitutions)
    /\ ~full_identity(call.new_expression, call.last_expression)
    /\ call' = [call EXCEPT !.last_expression = call.new_expression, !.i = call.i + 1]
    /\ pc' = "fold"
    /\ UNCHANGED <<wire, ret>>

\* The else of the for loop: a warning, and return last_expression
ReachedMaxIters ==
    /\ pc = "fold"
    /\ call.i >= call.max_iters
    /\ ret' = Append(ret, Return(call.last_expression))
    /\ pc' = "done"
    /\ UNCHANGED <<call, wire>>

NextRewrite ==
    \/ SubstituteFirst \/ FoldPass \/ ApplyRule \/ FixedPoint \/ NextIteration
    \/ ReachedMaxIters

SpecRewrite == InitRewrite /\ [][NextRewrite]_vars

(***************************************************************************)
(* CLAIMS                                                                  *)
(***************************************************************************)

\* The subtrees of e.
RECURSIVE Subtrees(_)
Subtrees(e) == {e} \cup UNION {Subtrees(terms(e)[i]) : i \in DOMAIN terms(e)}

\* The subtrees of e that stand where pattern p has Wildcard(id).
RECURSIVE CapturedUnder(_, _, _)
CapturedUnder(p, e, id) ==
    IF p.head = "Wildcard" THEN (IF p.number = id THEN {e} ELSE {})
    ELSE IF p.head # e.head THEN {}
    ELSE UNION {CapturedUnder(terms(p)[i], terms(e)[i], id) : i \in DOMAIN terms(p)}

MatchReturned == pc = "done" /\ call.op = "match" /\ ~Raised(ret[1])

\* C1: when a wildcard id occurs more than once in the pattern, match returns
\* a binding only if all the subtrees captured under that id are structurally
\* equal; Wildcard(0) + Wildcard(0) against x + y gives None and against x + x
\* gives {0: x}.
C1_RepeatedWildcardsAgree ==
    MatchReturned =>
        /\ ret[1].val.bound =>
              \A id \in wildcard_numbers(call.self) :
                 \A s \in CapturedUnder(call.self, call.expression, id) :
                    \A t \in CapturedUnder(call.self, call.expression, id) :
                       full_identity(s, t)
        /\ (call.self = Plus(w1, w1) /\ call.expression = Plus(x, y))
              => ret[1].val = None
        /\ (call.self = Plus(w1, w1) /\ call.expression = Plus(x, x))
              => ret[1].val = Binding([key \in {0} |-> x])

\* C2: match returns a binding B exactly when putting B[id] in place of every
\* wildcard id of the pattern gives a tree structurally equal to the
\* expression, and None in every other case.
C2_MatchIffInstanceEqual ==
    MatchReturned =>
        LET p == call.self
            e == call.expression
            r == ret[1].val
        IN /\ r.bound => full_identity(instantiate(p, r.dict), e)
           /\ ~r.bound =>
                 \A B \in [wildcard_numbers(p) -> Subtrees(e)] :
                    ~full_identity(instantiate(p, B), e)

\* C3: on every assignment of the grid on which the tree evaluates to a
\* number, the simplified tree, where it evaluates to a number too, evaluates
\* to the same number (this is the part of the claim that does not depend on
\* constant folding returning a tree).
C3_SimplifyKeepsValue ==
    (/\ pc = "evaluated"
     /\ ~Raised(ret[2])
     /\ ~Raised(ret[3])
     /\ IsNumber(ret[3].val.v)) =>
        ValueEq(ret[3].val.v, ret[2].val.v)

RECURSIVE StripAlias(_)
StripAlias(e) ==
    CASE e.head = "Variable" -> Variable(e.identity, NoAlias)
      [] e.head \in UnaryHeads -> Unary(e.head, StripAlias(e.a))
      [] e.head \in BinaryHeads -> Binary(e.head, StripAlias(e.a), StripAlias(e.b))
      [] OTHER -> e

\* The Variable nodes of a tree from left to right.
RECURSIVE VariableNodes(_)
VariableNodes(e) ==
    CASE e.head = "Variable" -> <<e>>
      [] e.head \in UnaryHeads -> VariableNodes(e.a)
      [] e.head \in BinaryHeads -> VariableNodes(e.a) \o VariableNodes(e.b)
      [] OTHER -> <<>>

\* The alias of the last Variable node of e, from left to right, with the identity.
LastAlias(e, identity) ==
    LET nodes == VariableNodes(e)
        last == CHOOSE i \in DOMAIN nodes :
                   /\ nodes[i].identity = identity
                   /\ \A j \in DOMAIN nodes : nodes[j].identity = identity => j <= i
    IN nodes[last].print_alias

CodecReturned == pc = "decoded" /\ call.op = "serialise"

\* C5: for every wildcard-free tree t with encodable constants and every
\* padding, serialise returns and deserialise(t.serialise() ++ pad) returns a
\* tree structurally equal to t: same heads, same child order, same constant
\* values and kinds, same variable identities.
C5_CodecRoundTrip ==
    CodecReturned =>
        /\ ~Raised(ret[1])
        /\ ~Raised(ret[2])
        /\ full_identity(ret[2].val, call.self)
        /\ StripAlias(ret[2].val) = StripAlias(call.self)

\* C5 witness: a tree with two variables, a float constant below a binary
\* node, decoded on a little-endian machine from an encoding with padding.
C5_Witness ==
    /\ CodecReturned
    /\ ~Raised(ret[2])
    /\ call.self = Plus(ya, Half)
    /\ call.pad = <<2, 0>>
    /\ call.byteorder = "little"
    /\ ret[2].val.b.value.k = "float"

\* C6 as claimed: every Variable node of deserialise(serialise(t)) has the
\* print alias of the Variable node at the same position in t, also when t
\* has Variable nodes of one identity with different aliases.
C6_AliasOfEachNodeKept ==
    (CodecReturned /\ ~Raised(ret[2])) =>
        /\ Len(VariableNodes(ret[2].val)) = Len(VariableNodes(call.self))
        /\ \A i \in DOMAIN VariableNodes(call.self) :
              VariableNodes(ret[2].val)[i].print_alias
                 = VariableNodes(call.self)[i].print_alias

\* C6 as amended: every Variable node of deserialise(serialise(t)) has the
\* print alias of the last Variable node of t, from left to right, with the
\* same identity; so the alias of each node is kept when the Variable nodes
\* of one identity all have the same alias.
C6_AliasOfLastOccurrenceKept ==
    CodecReturned =>
        /\ ~Raised(ret[2])
        /\ Len(VariableNodes(ret[2].val)) = Len(VariableNodes(call.self))
        /\ \A i \in DOMAIN VariableNodes(call.self) :
              LET node == VariableNodes(call.self)[i]
              IN /\ VariableNodes(ret[2].val)[i].identity = node.identity
                 /\ VariableNodes(ret[2].val)[i].print_alias
                       = LastAlias(call.self, node.identity)

\* C6 witness: one identity under two aliases, and a node without alias.
C6_Witness ==
    /\ CodecReturned
    /\ ~Raised(ret[2])
    /\ call.self = Minus(Log(xb), Times(x, ya))
    /\ ret[2].val.a.a.print_alias = NoAlias
    /\ ret[2].val.b.b.print_alias = AliasWide

\* C7: for every 32-bit integer, float, or rectangular int or float array v,
\* decode_numeric_with_size(encode_numeric(v)) returns v and the length of
\* the encoding; an integer comes back a plain integer and a float a plain
\* float.
C7_NumericRoundTrip ==
    (pc = "decoded" /\ call.op = "numeric") =>
        /\ ~Raised(ret[2])
        /\ ret[2].val = <<call.number, Len(ret[1].val)>>
        /\ call.number.k \in {"int", "float"} =>
              /\ ret[2].val[1].k = call.number.k
              /\ ~ret[2].val[1].np

\* C7 witness: a float scalar decoded as a float on a little-endian machine.
C7_Witness ==
    /\ pc = "decoded"
    /\ call.op = "numeric"
    /\ call.number = FloatV(-5, 2)
    /\ call.byteorder = "little"
    /\ ~Raised(ret[2])
    /\ ret[2].val[1].k = "float"
    /\ ret[2].val[2] = 1 + float_bytes

\* C8: for every payload b and every padding,
\* decode_bytestring_with_size(encode_bytestring(b) ++ pad) returns b and
\* len(b) + 4, the length of encode_bytestring(b), whatever the padding.
C8_BytestringRoundTrip ==
    (pc = "decoded" /\ call.op = "bytestring") =>
        /\ ~Raised(ret[2])
        /\ ret[2].val = <<call.data, Len(call.data) + 4>>
        /\ ret[2].val[2] = Len(ret[1].val)

\* C8 witness: a payload of two bytes decoded from an encoding with padding.
C8_Witness ==
    /\ pc = "decoded"
    /\ call.op = "bytestring"
    /\ call.data = <<255, 0>>
    /\ call.pad = <<0, 255>>
    /\ ~Raised(ret[2])
    /\ ret[2].val[2] = 6

\* C9: for every list L of (identity, alias) pairs and every padding,
\* decode_variable_table_with_size(encode_variable_table(L) ++ padding)
\* returns a list as long as L whose i-th entry has the identity and the
\* alias of the i-th entry of L.
C9_VariableTableRoundTrip ==
    (pc = "decoded" /\ call.op = "variable_table") =>
        /\ ~Raised(ret[2])
        /\ Len(ret[2].val[1]) = Len(call.variables)
        /\ \A i \in DOMAIN call.variables :
              /\ ret[2].val[1][i][1] = call.variables[i][1]
              /\ ret[2].val[1][i][2] = call.variables[i][2]

\* C9 witness: two entries, one with a multi-byte alias and one without
\* alias, decoded from an encoding with padding.
C9_Witness ==
    /\ pc = "decoded"
    /\ call.op = "variable_table"
    /\ call.variables = <<<<IdLong, AliasWide>>, <<IdX, NoAlias>>>>
    /\ call.pad = <<255, 2>>
    /\ ~Raised(ret[2])
    /\ Len(ret[2].val[1]) = 2

\* C10: diff(a*e1 + b*e2, v) returns a tree structurally equal to the
\* simplified a*diff(e1, v) + b*diff(e2, v).
C10_DiffLinear ==
    (pc = "done" /\ call.op = "diff") =>
        /\ ~Raised(ret[1])
        /\ ~Raised(ret[2])
        /\ full_identity(ret[1].val, ret[2].val)

(***************************************************************************)
(* Differentiation of one tree (SpecCalc).                                 *)
(***************************************************************************)
RECURSIVE Contains(_, _)
Contains(e, heads) ==
    e.head \in heads \/ \E i \in DOMAIN terms(e) : Contains(terms(e)[i], heads)

CalcDone == call.op = "fast_diff" /\ Len(ret) >= 2

\* What C11 says diff of a leaf is.
LeafDerivative(self, term) ==
    IF self.head = "Variable" /\ self.identity = term.identity THEN Num(1) ELSE Num(0)

\* C11: diff and fast_diff of a Constant return Constant(0); of a Variable
\* they return Constant(1) when its identity is that of the term and
\* Constant(0) when it is not, whatever the print aliases.
C11_LeafDerivatives ==
    (CalcDone /\ call.self.head \in {"Constant", "Variable"}) =>
        /\ ~Raised(ret[1])
        /\ ~Raised(ret[2])
        /\ full_identity(ret[1].val, LeafDerivative(call.self, call.term))
        /\ full_identity(ret[2].val, LeafDerivative(call.self, call.term))
        /\ ret[2].val.value.k = "int"

\* C11 witness: a variable differentiated by a term of the same identity and
\* another print alias gave Constant(1).
C11_Witness ==
    /\ CalcDone
    /\ call.self = xb
    /\ call.term = xa
    /\ ret[2] = Return(Num(1))

\* C12: diff(Sin(x), x) returns a tree that evaluates to 1 at x = 0, and
\* diff(Cos(x), x) returns a tree that evaluates to 0 at x = 0.
C12_TrigDerivativeAtZero ==
    (pc = "done" /\ call.op = "fast_diff" /\ call.self \in {Sin(x), Cos(x)}
        /\ call.term.identity = IdX /\ call.at[IdX] = IntV(0)) =>
        /\ ~Raised(ret[2])
        /\ ~Raised(ret[3])
        /\ ~IsExpression(ret[3].val)
        /\ ValueEq(ret[3].val.v, IntV(IF call.self = Sin(x) THEN 1 ELSE 0))

\* C13: fast_diff and diff of a tree that contains a Wildcard or a Sign node
\* anywhere fail with NonDifferentiableExpressionError.
C13_NonDifferentiableFails ==
    (CalcDone /\ Contains(call.self, {"Wildcard", "Sign"})) =>
        /\ ret[1] = Raise("NonDifferentiableExpressionError")
        /\ ret[2] = Raise("NonDifferentiableExpressionError")

(***************************************************************************)
(* Operators between a tree and a value (SpecOperators).                   *)
(***************************************************************************)
\* C14: t op n and n op t, for a number n, build the node of op over t and
\* Constant(n) in the written order, unchanged; for a value that is neither
\* a number nor a tree both raise TypeError.
C14_OperatorsWrapNumbers ==
    (pc = "done" /\ call.op = "operator") =>
        IF IsNumber(call.n)
        THEN /\ ret[1] = Return(PyExpr(Binary(call.cls, call.t, Constant(call.n))))
             /\ ret[2] = Return(PyExpr(Binary(call.cls, Constant(call.n), call.t)))
        ELSE /\ ret[1] = Raise("TypeError")
             /\ ret[2] = Raise("TypeError")

(***************************************************************************)
(* Evaluation under a partial binding (SpecEvaluate).                      *)
(***************************************************************************)
\* A Variable node whose identity the map lacks is reached: the children are
\* evaluated in order, a before b, and nothing before the node has raised.
RECURSIVE ReachesUnbound(_, _)
ReachesUnbound(e, variable_map) ==
    CASE e.head = "Variable" -> e.identity \notin DOMAIN variable_map
      [] e.head \in UnaryHeads -> ReachesUnbound(e.a, variable_map)
      [] e.head \in BinaryHeads ->
            \/ ReachesUnbound(e.a, variable_map)
            \/ /\ ~Raised(evaluate(e.a, variable_map))
               /\ ReachesUnbound(e.b, variable_map)
      [] OTHER -> FALSE

\* C15: evaluating a tree under a map that lacks the identity of a Variable
\* node reached during the evaluation fails with EvaluationError.
C15_UnboundVariableFails ==
    (pc = "done" /\ call.op = "call" /\ ReachesUnbound(call.self, call.variable_map)) =>
        ret[1] = Raise("EvaluationError")

(***************************************************************************)
(* Substitution (SpecSubstitute).                                          *)
(***************************************************************************)
\* The target holds a wildcard whose number no wildcard of the source has.
TargetHasNewWildcard(source, target) ==
    \E n \in Subtrees(target) :
        /\ n.head = "Wildcard"
        /\ \A m \in Subtrees(source) : m.head = "Wildcard" => m.number # n.number

\* C16: substitute fails with SubstitutionError whenever the target holds a
\* wildcard that the source does not hold, whatever the root and whether or
\* not the source matches in it.
C16_TargetWildcardsChecked ==
    (pc = "done" /\ call.op = "substitute"
        /\ TargetHasNewWildcard(call.source_pattern, call.target_pattern)) =>
        ret[1] = Raise("SubstitutionError")

\* C16 witness: a wildcard-free root in which the source matches nowhere, a
\* target with a wildcard of its own, and SubstitutionError raised.
C16_Witness ==
    /\ pc = "done"
    /\ call.op = "substitute"
    /\ call.self = x
    /\ call.source_pattern = Plus(w1, Num(0))
    /\ call.target_pattern = w2
    /\ ret[1] = Raise("SubstitutionError")

(***************************************************************************)
(* Decoding damaged bytes (SpecDecode).                                    *)
(***************************************************************************)
DamagedDecoded == pc = "decoded" /\ call.op = "deserialise"

\* C17: deserialising bytes whose body holds a node tag outside 1..15, or a
\* Variable node whose index is not smaller than the count of the variable
\* table, fails with DecodingError.
C17_MalformedReferenceFails ==
    (DamagedDecoded /\ call.damage \in {"tag", "index"}) =>
        ret[2] = Raise("DecodingError")

\* C18: deserialising a proper prefix of t.serialise() fails with
\* DecodingError; no tree is returned and no consumed size beyond the length
\* of the prefix is reported.
C18_TruncatedInputFails ==
    (DamagedDecoded /\ call.damage = "truncated") =>
        ret[2] = Raise("DecodingError")

(***************************************************************************)
(* The size of the variable table (SpecVarCount).                          *)
(***************************************************************************)
\* C19: encode_variable_table fails with EncodingError for a list of more
\* than 65535 entries, exactly 65536 included; for a shorter list it returns
\* bytes whose first two bytes are the count as a big-endian unsigned integer.
C19_VariableCountLimit ==
    (pc = "done" /\ call.op = "encode_variable_table") =>
        IF call.count > 65535
        THEN ret[1] = Raise("EncodingError")
        ELSE /\ ~Raised(ret[1])
             /\ SubSeq(ret[1].val, 1, 2) = BigEndian(call.count, 2)

(***************************************************************************)
(* Constant folding (SpecFold).                                            *)
(***************************************************************************)
RECURSIVE Symbolic(_)
Symbolic(e) ==
    CASE e.head = "Constant" -> FALSE
      [] e.head \in {"Variable", "Wildcard"} -> TRUE
      [] e.head \in UnaryHeads -> Symbolic(e.a)
      [] OTHER -> Symbolic(e.a) \/ Symbolic(e.b)

\* reduced is e with every subtree free of symbols folded to a Constant that
\* holds a number, and every other node kept with its tag.
RECURSIVE FoldedFrom(_, _)
FoldedFrom(reduced, e) ==
    IF ~Symbolic(e) THEN reduced.head = "Constant" /\ reduced.value.k # "fn"
    ELSE /\ reduced.head = e.head
         /\ CASE e.head \in {"Variable", "Wildcard"} -> reduced = e
              [] e.head \in UnaryHeads -> FoldedFrom(reduced.a, e.a)
              [] OTHER -> FoldedFrom(reduced.a, e.a) /\ FoldedFrom(reduced.b, e.b)

\* C20: reduce_constants returns an Expression tree: a node whose children
\* are all numeric is folded to a Constant, and a node with a symbolic child
\* comes back as a node of the same tag over the folded children (Sin and Cos
\* of a symbolic argument and a number divided by a symbolic denominator
\* included).  Arithmetic that fails on numbers (a division by zero) and
\* values that are not computed are left out of the statement.
C20_FoldKeepsSymbolicNodes ==
    (/\ pc = "done"
     /\ call.op = "reduce_constants"
     /\ ret[1] \notin {Raise("OutOfModel"), Raise("ZeroDivisionError")}) =>
        /\ ~Raised(ret[1])
        /\ FoldedFrom(ret[1].val, call.self)

(***************************************************************************)
(* The differentiation rules (SpecRules).                                  *)
(***************************************************************************)
RuleDone == pc = "done" /\ call.op = "rule"

\* a' and b' of the rules: fast_diff of the operands of the node
OperandDerivative(operand) == fast_diff(operand, call.term, 1)

\* C21: fast_diff(Sin(a), v) is Times(Cos(a), a') and fast_diff(Cos(a), v) is
\* Neg(Times(Sin(a), a')), where a' = fast_diff(a, v) is the raw derivative
\* of a.
C21_TrigRulesRaw ==
    (/\ RuleDone
     /\ call.self.head \in {"Sin", "Cos"}
     /\ ~Raised(OperandDerivative(call.self.a))) =>
        ret[1] = Return(IF call.self.head = "Sin"
                        THEN Times(Cos(call.self.a), OperandDerivative(call.self.a).val)
                        ELSE Neg(Times(Sin(call.self.a),
                                       OperandDerivative(call.self.a).val)))

\* The tree the arithmetic rules name for a node over a and b with the
\* derivatives da and db.
ArithmeticRule(cls, a, b, da, db) ==
    CASE cls = "Plus" -> Plus(da, db)
      [] cls = "Minus" -> Minus(da, db)
      [] cls = "Neg" -> Neg(da)
      [] cls = "Times" -> Plus(Times(a, db), Times(da, b))
      [] cls = "Divide" -> Divide(Minus(Times(da, b), Times(a, db)), Power(b, Num(2)))
      [] cls = "Modulo" -> da
      [] cls = "Power" ->
            Times(Plus(Times(Times(a, db), Log(a)), Times(b, da)),
                  Power(a, Minus(b, Num(1))))
      [] cls = "Exp" -> Times(Exp(a), da)
      [] cls = "Log" -> Divide(da, a)
      [] cls = "Abs" -> Times(Sign(a), da)

\* C22: with a' = fast_diff(a, v) and b' = fast_diff(b, v), fast_diff returns
\* exactly the tree of the rule of the node's class: Plus, Minus, Neg, Times,
\* Divide, Modulo, Power, Exp, Log and Abs.
C22_ArithmeticRules ==
    (/\ RuleDone
     /\ call.self.head \in (UnaryHeads \cup BinaryHeads) \ {"Sin", "Cos", "Sign"}
     /\ ~Raised(OperandDerivative(call.self.a))
     /\ call.self.head \in BinaryHeads => ~Raised(OperandDerivative(call.self.b))) =>
        ret[1] = Return(ArithmeticRule(
                     call.self.head, call.self.a,
                     IF call.self.head \in BinaryHeads THEN call.self.b ELSE call.self.a,
                     OperandDerivative(call.self.a).val,
                     IF call.self.head \in BinaryHeads
                     THEN OperandDerivative(call.self.b).val
                     ELSE OperandDerivative(call.self.a).val))

\* A product of a sum and a function, differentiated by x
C22_Witness ==
    /\ RuleDone
    /\ call.self = Times(Plus(x, Num(1)), Sin(x))
    /\ call.term = x
    /\ ret[1] = Return(Plus(Times(Plus(x, Num(1)), Times(Num(1), Cos(x))),
                            Times(Plus(Num(1), Num(0)), Sin(x))))

(***************************************************************************)
(* The order of substitution (SpecSubstitute).                             *)
(***************************************************************************)
\* target with every wildcard whose number is bound replaced by its subtree
RECURSIVE Instance(_, _)
Instance(target, bound) ==
    CASE target.head = "Wildcard" ->
            IF target.number \in DOMAIN bound THEN bound[target.number] ELSE target
      [] target.head \in UnaryHeads -> Unary(target.head, Instance(target.a, bound))
      [] target.head \in BinaryHeads ->
            Binary(target.head, Instance(target.a, bound), Instance(target.b, bound))
      [] OTHER -> target

\* rebuilt where the source does not match it, the instance of the target
\* where it does
MatchedOnce(rebuilt, source, target) ==
    IF ~Raised(match(source, rebuilt)) /\ match(source, rebuilt).val.bound
    THEN Instance(target, match(source, rebuilt).val.dict)
    ELSE rebuilt

\* The children rewritten first, the node rebuilt, the source matched against
\* the rebuilt node once.
RECURSIVE BottomUp(_, _, _)
BottomUp(e, source, target) ==
    MatchedOnce(CASE e.head \in UnaryHeads -> Unary(e.head, BottomUp(e.a, source, target))
                  [] e.head \in BinaryHeads ->
                        Binary(e.head, BottomUp(e.a, source, target),
                               BottomUp(e.b, source, target))
                  [] OTHER -> e,
                source, target)

\* C23: for a wildcard-free root and a target without wildcards of its own,
\* substitute rewrites the children, rebuilds the node and then matches the
\* source against the rebuilt node: a match gives the target with the
\* captured wildcards replaced by their subtrees, which is not matched again,
\* and no match gives the rebuilt node.
C23_BottomUpSinglePass ==
    (/\ pc = "done"
     /\ call.op = "substitute"
     /\ wildcard_numbers(call.self) = {}
     /\ ~TargetHasNewWildcard(call.source_pattern, call.target_pattern)) =>
        ret[1] = Return(BottomUp(call.self, call.source_pattern, call.target_pattern))

\* Neg(Neg(#1)) -> #1 turns Neg(Neg(Neg(x))) into Neg(x): the two inner Neg
\* are rewritten to x and the rebuilt root Neg(x) no longer matches.
C23_Witness ==
    /\ pc = "done"
    /\ call.op = "substitute"
    /\ call.self = Neg(Neg(Neg(x)))
    /\ call.source_pattern = Neg(Neg(w1))
    /\ call.target_pattern = w1
    /\ ret[1] = Return(Neg(x))

(***************************************************************************)
(* The exit of the simplifier loop (SpecLoop).                             *)
(***************************************************************************)
\* The tree after k iterations that never stop: k times one folding pass
\* followed by every rule of the table in table order.
RECURSIVE Iterated(_, _)
Iterated(t, k) ==
    IF k = 0 THEN Return(t)
    ELSE Then(Iterated(t, k - 1), LAMBDA before : simplify_pass(before, 1))

\* The iterations, of the first n, that end with the tree they started from
Unchanging(t, n) ==
    {k \in 1..n : full_identity(Iterated(t, k).val, Iterated(t, k - 1).val)}

LoopDone == pc = "done" /\ call.op = "simplify_max_iters"

\* C24: simplify(t, max_iters=n) returns the tree of the first iteration, of
\* at most n, that ends with the tree it started from; when there is none it
\* returns the tree of iteration n (t itself for n = 0) and raises nothing.
\* Read where the iterations themselves raise nothing.
C24_LoopExit ==
    (LoopDone /\ \A k \in 0..call.max_iters : ~Raised(Iterated(call.self, k))) =>
        ret[1] = IF Unchanging(call.self, call.max_iters) # {}
                 THEN Iterated(call.self,
                               CHOOSE k \in Unchanging(call.self, call.max_iters) :
                                  \A j \in Unchanging(call.self, call.max_iters) : k <= j)
                 ELSE Iterated(call.self, call.max_iters)

\* The cap reached before the tree stops changing: one iteration of three
C24_Witness ==
    /\ LoopDone
    /\ call.self = Padded(x)
    /\ call.max_iters = 1
    /\ ret[1] = Return(Minus(x, Num(0)))
    /\ Unchanging(call.self, 3) = {3}

(***************************************************************************)
(* The measure of the rules (SpecMeasure).                                 *)
(***************************************************************************)
RECURSIVE NodeCount(_)
NodeCount(e) ==
    CASE e.head \in UnaryHeads -> 1 + NodeCount(e.a)
      [] e.head \in BinaryHeads -> 1 + NodeCount(e.a) + NodeCount(e.b)
      [] OTHER -> 1

RECURSIVE NegCount(_)
NegCount(e) ==
    CASE e.head \in UnaryHeads -> (IF e.head = "Neg" THEN 1 ELSE 0) + NegCount(e.a)
      [] e.head \in BinaryHeads -> NegCount(e.a) + NegCount(e.b)
      [] OTHER -> 0

\* The number of Neg nodes plus the number of nodes
Measure(e) == NegCount(e) + NodeCount(e)

\* Every iteration from the first to the last named one that changes the
\* tree ends with a smaller measure.
ChangesDecrease(t, last) ==
    \A k \in 1..last :
        \/ full_identity(Iterated(t, k).val, Iterated(t, k - 1).val)
        \/ Measure(Iterated(t, k).val) < Measure(Iterated(t, k - 1).val)

\* C25: a rule of the table that changes a wildcard-free tree makes its
\* measure smaller; an iteration of the simplifier that changes the tree
\* makes the measure smaller, and the tree stops changing within (node count
\* of t) + 1 iterations, where simplify returns it.
C25_RulesDecreaseMeasure ==
    /\ (pc = "done" /\ call.op = "substitute_rule") =>
          /\ ~Raised(ret[1])
          /\ \/ full_identity(ret[1].val, call.self)
             \/ Measure(ret[1].val) < Measure(call.self)
    /\ (pc = "done" /\ call.op = "simplify_default" /\ ~Raised(ret[1])) =>
          /\ Unchanging(call.self, NodeCount(call.self) + 1) # {}
          /\ ChangesDecrease(call.self, NodeCount(call.self) + 1)
          /\ \E k \in Unchanging(call.self, NodeCount(call.self) + 1) :
                ret[1] = Iterated(call.self, k)

\* A rule that removes one Neg node and one node, the measure going from 5
\* to 3.
C25_Witness ==
    /\ pc = "done"
    /\ call.op = "substitute_rule"
    /\ call.self = Plus(x, Neg(y))
    /\ ret[1] = Return(Minus(x, y))
    /\ Measure(call.self) = 5
    /\ Measure(ret[1].val) = 3

(***************************************************************************)
(* The variable table of a serialised tree (SpecTable).                    *)
(***************************************************************************)
TableDone == pc = "done" /\ call.op = "serialise_table"

\* The identities of the Variable nodes of e
Identities(e) == {n.identity : n \in {m \in Subtrees(e) : m.head = "Variable"}}

\* a comes before b in the order of bytes objects
Before(a, b) ==
    \E i \in 1..(Len(a) + 1) :
        /\ i <= Len(b)
        /\ \A j \in 1..(i - 1) : j <= Len(a) /\ a[j] = b[j]
        /\ i = Len(a) + 1 \/ a[i] < b[i]

\* The position, counted from 0, of identity in the decoded table
IndexIn(table, identity) == (CHOOSE i \in DOMAIN table : table[i][1] = identity) - 1

\* What the bytes written hold: the decoded table and its length
WrittenTable == decode_variable_table_with_size(wire).val

\* C26: the variable table that serialise writes holds every identity of the
\* tree once, in ascending order of the identity bytes whatever the order of
\* the occurrences, and every Variable node of the body is tag 2 followed by
\* the big-endian 16-bit index of its identity in the table.
C26_TableSortedAndIndexed ==
    TableDone =>
        /\ ~Raised(decode_variable_table_with_size(wire))
        /\ {WrittenTable[1][i][1] : i \in DOMAIN WrittenTable[1]} = Identities(call.self)
        /\ Len(WrittenTable[1]) = Cardinality(Identities(call.self))
        /\ \A i \in DOMAIN WrittenTable[1] : \A j \in DOMAIN WrittenTable[1] :
              i < j => Before(WrittenTable[1][i][1], WrittenTable[1][j][1])
        /\ \A node \in TagOffsets(call.self, enumerate_lookup(variables(call.self)),
                                   call.byteorder, WrittenTable[2]) :
              node[2].head = "Variable" =>
                 SubSeq(wire, node[1] + 1, node[1] + 3)
                    = <<2>> \o BigEndian(IndexIn(WrittenTable[1], node[2].identity), 2)

\* Four identities met in descending order: b"\xff", b"y\x00", then y and x;
\* the body names them 3, 2, 1, 0.
C26_Witness ==
    /\ TableDone
    /\ call.self = Plus(Times(Variable(IdHigh, NoAlias), Variable(IdLong, AliasB)),
                        Plus(y, x))
    /\ [i \in 1..4 |-> WrittenTable[1][i][1]] = <<IdX, IdY, IdLong, IdHigh>>
    /\ SubSeq(wire, Len(wire) - 14, Len(wire))
          = <<3, 6, 2, 0, 3, 2, 0, 2, 3, 2, 0, 1, 2, 0, 0>>

(***************************************************************************)
(* The debug flag (SpecDebug).                                             *)
(***************************************************************************)
\* two outcomes that are the same error or structurally equal trees
SameOutcome(p, q) ==
    IF Raised(p) \/ Raised(q) THEN p = q ELSE full_identity(p.val, q.val)

\* C27: the debug flag changes no result: simplify(debug=True) returns a
\* tree structurally equal to the one of simplify(debug=False), and
\* diff(v, debug=True) one structurally equal to the one of diff(v).
C27_DebugChangesNothing ==
    (pc = "done" /\ call.op = "debug") =>
        /\ SameOutcome(ret[1], ret[2])
        /\ SameOutcome(ret[3], ret[4])

(***************************************************************************)
(* The passes of the parser (SpecParse).                                   *)
(***************************************************************************)
\* C28: _parse_tokens terminates on every finite token list: every pass of
\* its outer loop over a token list without parentheses either raises or
\* leaves strictly fewer tokens than it started with, also when two operands
\* stand next to each other with no operator between them.  (A list of one
\* token is the one a pass leaves as it is; the loop ends on it.)
C28_PassLeavesFewerTokens ==
    (call.op = "_parse_tokens" /\ pc = "passed" /\ call.paren_free) =>
        (Len(wire) < call.before \/ call.before = 1)

(***************************************************************************)
(* Rewriting keeps a tree free of wildcards (SpecRewrite).                 *)
(***************************************************************************)
\* C29: for every wildcard-free tree and every (source, target) whose target
\* holds no wildcard that the source does not hold, substitute returns a
\* wildcard-free tree; and every tree the simplifier holds after any number
\* of folding passes and rule applications, and the tree it returns, is
\* wildcard-free.
C29_RewritingKeepsWildcardFree ==
    (call.op = "rewrite" /\ wildcard_numbers(call.self) = {}
        /\ wildcard_numbers(call.target_pattern) \subseteq
              wildcard_numbers(call.source_pattern)) =>
        /\ \A k \in DOMAIN ret : ~Raised(ret[k]) => wildcard_numbers(ret[k].val) = {}
        /\ wildcard_numbers(call.new_expression) = {}
        /\ wildcard_numbers(call.last_expression) = {}

\* C29 witness: Plus(#1, #2) -> Plus(#2, #1) has swapped the sum inside a
\* product, and the simplifier has removed the double negation and returned
\* after its second iteration.
C29_Witness ==
    /\ pc = "done"
    /\ call.op = "rewrite"
    /\ call.self = Times(Neg(Neg(x)), Plus(y, x))
    /\ call.source_pattern = Plus(w1, w2)
    /\ call.target_pattern = Plus(w2, w1)
    /\ call.i = 1
    /\ ret = <<Return(Times(Neg(Neg(x)), Plus(x, y))), Return(Times(x, Plus(x, y)))>>

(***************************************************************************)
(* Folding and evaluation (SpecFold).                                      *)
(***************************************************************************)
\* C30: for every tree that holds no Variable and no Wildcard and on which
\* evaluation is defined, reduce_constants returns a single Constant whose
\* value equals the result of evaluating the tree with the empty binding.
C30_FoldAgreesWithEvaluation ==
    (/\ pc = "done"
     /\ call.op = "reduce_constants"
     /\ ~Symbolic(call.self)
     /\ ~Raised(evaluate(call.self, EmptyDict))) =>
        /\ ~Raised(ret[1])
        /\ ret[1].val.head = "Constant"
        /\ ValueEq(ret[1].val.value, evaluate(call.self, EmptyDict).val.v)

\* C30 witness: 1 - (-(2 % 0.5)) folded to the Constant 1.0, the value of the
\* tree
C30_Witness ==
    /\ pc = "done"
    /\ call.op = "reduce_constants"
    /\ call.self = Minus(Exp(Num(0)), Neg(Modulo(Num(2), Half)))
    /\ evaluate(call.self, EmptyDict) = Return(PyNum(NumpyV(FloatV(1, 1))))
    /\ ret[1] = Return(Constant(NumpyV(FloatV(1, 1))))

====
